---- MODULE Spec2Model ----
(***************************************************************************)
(* A model of src/main.py: the ShipStation -> GPX -> Google Drive          *)
(* enrichment pipeline.                                                    *)
(*                                                                         *)
(* Text values (Python str) are sequences of one-character strings, so     *)
(* that the regular expressions and slices of the source can be computed.  *)
(* An optional value (a dict key that may be missing, or None) is a        *)
(* sequence of length 0 (missing / None) or 1 (present).                   *)
(*                                                                         *)
(* Seven specifications share the module:                                    *)
(*   SpecParse   parse_orders / extract_serial_numbers on bounded inputs   *)
(*   SpecNotes   parse_orders on one order, notes built from segments      *)
(*   SpecIngest  ShipStationClient._get and get_shipped_orders             *)
(*   SpecRun     run(), enrich_with_gpx and the GPXScraper session         *)
(*   SpecSession GPXScraper under any sequence of start() and close()      *)
(*   SpecDate    format_sheet_date                                         *)
(*   SpecLookup  GPXScraper.lookup_serial on pages built from card parts   *)
(***************************************************************************)
EXTENDS Integers, Sequences, FiniteSets, TLC

VARIABLES
    \* ---- parse_orders (SpecParse) ----
    pOrders,        \* the `orders` argument of parse_orders
    pIdx,           \* number of orders the for-loop has consumed
    pRecords,       \* the `records` list built so far
    pDone,          \* parse_orders has returned
    \* ---- ShipStationClient (SpecIngest) ----
    phase,          \* position in get_shipped_orders
    page,           \* local `page`
    all_shipments,  \* local `all_shipments`
    order_ids,      \* the part of the list `order_ids` not yet iterated
    all_orders,     \* local `all_orders`
    call,           \* the _get call in progress (or just finished)
    srvPages,       \* ghost: the page count the server reports
    idsToFetch,     \* ghost: value of `order_ids` when it was computed
    fetchOutcome,   \* ghost: how the detail _get of each order id ended
    pagesFetched,   \* ghost: listing pages whose response was accumulated
    getCalls,       \* ghost: the _get calls made so far, in order
    served,         \* ghost: listing pages the server answered with 200
    ingestResult,   \* return value of get_shipped_orders
    \* ---- run / enrich_with_gpx / GPXScraper (SpecRun) ----
    pc,             \* position in run()
    dry_run,        \* argument of run()
    orders,         \* local `orders` of run()
    records,        \* local `records` of run()
    recs0,          \* ghost: `records` as parse_orders returned it
    sess,           \* the GPXScraper object: [made, pw, browser, loggedIn]
    gpx_scraper,    \* local `gpx_scraper` of run(): TRUE when not None
    lkIdx,          \* enrich_with_gpx: number of to_lookup records consumed
    payload,        \* rows written to run()'s csv writer
    sheetRows,      \* rows written by create_and_populate_sheet
    csvFile,        \* the temp file csv_path exists
    driveFiles,     \* number of files this run created in the Drive folder
    log,            \* ghost: trace of external effects and session calls
    \* ---- format_sheet_date (SpecDate) ----
    date_str,       \* the argument of format_sheet_date
    sheet_date,     \* the value it returned
    dateState,      \* "call", "returned" or "raised"
    \* ---- GPXScraper.lookup_serial (SpecLookup) ----
    lkSerial,       \* the argument `serial`
    page_text,      \* the text of the results page, once the search is done
    result,         \* local `result`
    lkState,        \* position in lookup_serial
    branch,         \* ghost: the branch of the extraction that was taken
    shots           \* ghost: screenshots written by this call

parseVars  == <<pOrders, pIdx, pRecords, pDone>>
ingestVars == <<phase, page, all_shipments, order_ids, all_orders, call,
                srvPages, idsToFetch, fetchOutcome, pagesFetched, getCalls,
                served, ingestResult>>
runVars    == <<pc, dry_run, orders, records, recs0, sess, gpx_scraper,
                lkIdx, payload, sheetRows, csvFile, driveFiles, log>>
dateVars   == <<date_str, sheet_date, dateState>>
lookupVars == <<lkSerial, page_text, result, lkState, branch, shots>>
vars       == <<parseVars, ingestVars, runVars, dateVars, lookupVars>>

----------------------------------------------------------------------------
(* Text helpers                                                            *)

Digits  == {"0", "1", "2", "3", "4", "5", "6", "7", "8", "9"}
Letters == {"a", "b", "c", "d", "e", "f", "g", "h", "i", "j", "k", "l", "m",
            "n", "o", "p", "q", "r", "s", "t", "u", "v", "w", "x", "y", "z",
            "A", "B", "C", "D", "E", "F", "G", "H", "I", "J", "K", "L", "M",
            "N", "O", "P", "Q", "R", "S", "T", "U", "V", "W", "X", "Y", "Z"}

\* \d and \w of Python's re on str
IsDigit(c) == c \in Digits
IsWord(c)  == c \in Digits \cup Letters \cup {"_"}

\* \b at the gap before position i (1-based) of text t
Boundary(t, i) ==
    LET before == i > 1 /\ IsWord(t[i - 1])
        after  == i <= Len(t) /\ IsWord(t[i])
    IN  before # after

\* text[:n]
Prefix(t, n) == SubSeq(t, 1, IF Len(t) < n THEN Len(t) ELSE n)

\* sep.join(parts)
RECURSIVE Join(_, _)
Join(sep, parts) ==
    IF parts = <<>> THEN <<>>
    ELSE IF Len(parts) = 1 THEN parts[1]
    ELSE parts[1] \o sep \o Join(sep, Tail(parts))

\* d.get(key, default) and `d.get(key) or default` on an optional value
GetDefault(opt, default) == IF opt = <<>> THEN default ELSE opt[1]
GetOr(opt, default) ==
    IF opt = <<>> THEN default
    ELSE IF opt[1] = <<>> THEN default ELSE opt[1]

----------------------------------------------------------------------------
(* STEP 2: extract_serial_numbers and parse_orders                         *)

SerialMinLen == 5
SerialMaxLen == 7
RawNotesLen  == 200

NOT_FOUND  == <<"N", "O", "T", " ", "F", "O", "U", "N", "D">>
SHOPIFY    == <<"s", "h", "o", "p", "i", "f", "y">>
UNASSIGNED == <<"u", "n", "a", "s", "s", "i", "g", "n", "e", "d">>

\* (mutation of MatchesLen: the closing \b is missing from the pattern)
MatchesLenNoEnd(t, i, n) ==
    /\ i + n - 1 <= Len(t)
    /\ Boundary(t, i)
    /\ \A k \in i..(i + n - 1) : IsDigit(t[k])

\* whether \b(\d{n})\b matches at position i
MatchesLen(t, i, n) ==
    /\ i + n - 1 <= Len(t)
    /\ Boundary(t, i)
    /\ \A k \in i..(i + n - 1) : IsDigit(t[k])
    /\ Boundary(t, i + n)

\* length matched by \b(\d{5,7})\b at position i (greedy: longest first),
\* 0 when there is no match at i
MatchAt(t, i) ==
    LET lens == {n \in SerialMinLen..SerialMaxLen : MatchesLen(t, i, n)}
    IN  IF lens = {} THEN 0
        ELSE CHOOSE n \in lens : \A m \in lens : m <= n

\* the leftmost position from i on where the pattern matches (0: none)
NextMatch(t, i) ==
    LET starts == {j \in i..Len(t) : IsDigit(t[j]) /\ MatchAt(t, j) > 0}
    IN  IF starts = {} THEN 0
        ELSE CHOOSE j \in starts : \A k \in starts : j <= k

\* re.findall scanning from position i: leftmost, non-overlapping matches
RECURSIVE FindAllFrom(_, _)
FindAllFrom(t, i) ==
    LET j == NextMatch(t, i)
        n == MatchAt(t, j)
    IN  IF j = 0 THEN <<>>
        ELSE <<SubSeq(t, j, j + n - 1)>> \o FindAllFrom(t, j + n)

\* the spans (start, length) of the matches re.findall returns the text of
RECURSIVE FindSpansFrom(_, _)
FindSpansFrom(t, i) ==
    LET j == NextMatch(t, i)
        n == MatchAt(t, j)
    IN  IF j = 0 THEN <<>>
        ELSE << <<j, n>> >> \o FindSpansFrom(t, j + n)

\* a sequence without the repetitions of its elements
RECURSIVE Dedup(_)
Dedup(q) ==
    IF q = <<>> THEN <<>>
    ELSE LET front == Dedup(SubSeq(q, 1, Len(q) - 1))
             x     == q[Len(q)]
         IN  IF \E k \in 1..Len(front) : front[k] = x THEN front
             ELSE Append(front, x)

\* (mutation of extract_serial_numbers: repeated serials are returned once)
extract_serial_numbers_unique(internal_notes) ==
    IF internal_notes = <<>> THEN <<>>
    ELSE Dedup(FindAllFrom(internal_notes, 1))

extract_serial_numbers(internal_notes) ==
    IF internal_notes = <<>> THEN <<>>
    ELSE FindAllFrom(internal_notes, 1)

\* (mutation of SentinelRecord: sku of the first item, notes cut like the
\* log message of line 212)
SentinelRecordShort(skus, order_number, internal_notes) ==
    [sku          |-> IF skus = <<>> THEN <<>> ELSE skus[1],
     serial       |-> NOT_FOUND,
     imei         |-> <<>>,
     iccid        |-> <<>>,
     sim_provider |-> <<>>,
     retailer     |-> SHOPIFY,
     status       |-> UNASSIGNED,
     order_number |-> order_number,
     raw_notes    |-> Prefix(internal_notes, 100)]

\* the sentinel record of an order without serials (main.py 214-224)
SentinelRecord(skus, order_number, internal_notes) ==
    [sku          |-> Join(<<",", " ">>, skus),
     serial       |-> NOT_FOUND,
     imei         |-> <<>>,
     iccid        |-> <<>>,
     sim_provider |-> <<>>,
     retailer     |-> SHOPIFY,
     status       |-> UNASSIGNED,
     order_number |-> order_number,
     raw_notes    |-> Prefix(internal_notes, RawNotesLen)]

\* (mutation of SkuFor: every serial gets the first sku)
SkuForFirst(skus, i) == IF skus # <<>> THEN skus[1] ELSE <<>>

\* skus[i] if i < len(skus) else (skus[0] if skus else "")   (i is 0-based)
SkuFor(skus, i) ==
    IF i < Len(skus) THEN skus[i + 1]
    ELSE IF skus # <<>> THEN skus[1] ELSE <<>>

SerialRecord(skus, order_number, i, sn) ==
    [sku          |-> SkuFor(skus, i),
     serial       |-> sn,
     imei         |-> <<>>,
     iccid        |-> <<>>,
     sim_provider |-> <<>>,
     retailer     |-> SHOPIFY,
     status       |-> UNASSIGNED,
     order_number |-> order_number,
     raw_notes    |-> <<>>]

\* (mutation of OrderRecords: an order without serials is skipped)
OrderRecordsDrop(order) ==
    LET order_number   == GetDefault(order.orderNumber, <<>>)
        internal_notes == GetOr(order.internalNotes, <<>>)
        items          == GetDefault(order.items, <<>>)
        skus           == [k \in 1..Len(items) |-> GetDefault(items[k].sku, <<>>)]
        serials        == extract_serial_numbers(internal_notes)
    IN  [k \in 1..Len(serials) |->
            SerialRecord(skus, order_number, k - 1, serials[k])]

\* the records one iteration of the for-loop of parse_orders appends
OrderRecords(order) ==
    LET order_number   == GetDefault(order.orderNumber, <<>>)
        internal_notes == GetOr(order.internalNotes, <<>>)
        items          == GetDefault(order.items, <<>>)
        skus           == [k \in 1..Len(items) |-> GetDefault(items[k].sku, <<>>)]
        serials        == extract_serial_numbers(internal_notes)
    IN  IF serials = <<>>
        THEN <<SentinelRecord(skus, order_number, internal_notes)>>
        ELSE [k \in 1..Len(serials) |->
                 SerialRecord(skus, order_number, k - 1, serials[k])]

RECURSIVE parse_orders(_)
parse_orders(os) ==
    IF os = <<>> THEN <<>>
    ELSE OrderRecords(os[1]) \o parse_orders(Tail(os))

----------------------------------------------------------------------------
(* Bounded inputs                                                          *)

MaxOrders == 2

DigitChar == <<"0", "1", "2", "3", "4", "5", "6", "7", "8", "9">>
\* the text of a digit string given by its digits
Num(ds) == [k \in 1..Len(ds) |-> DigitChar[ds[k] + 1]]

S263384 == Num(<<2, 6, 3, 3, 8, 4>>)
S274341 == Num(<<2, 7, 4, 3, 4, 1>>)

\* values of an order's internalNotes: missing/None, empty, and free text
NotesInputs ==
    { <<>>,                                             \* key missing or None
      << <<>> >>,                                       \* ""
      << S263384 >>,                                    \* one serial
      << S263384 \o <<"\n">> \o S274341 >>,             \* two serials
      << S263384 \o <<",", " ">> \o S263384 >>,         \* the same serial twice
      << <<"s", "n", ":">> \o Num(<<1, 2, 3, 4, 5>>) \o <<" ">> \o
         Num(<<1, 2, 3, 4, 5, 6, 7>>) \o <<".">> >>,    \* 5 and 7 digits in text
      << Num(<<1, 2, 3, 4>>) \o <<" ">> \o Num(<<1, 2, 3, 4, 5, 6, 7, 8>>) >>,
                                                        \* 4 and 8 digits: none
      << Num(<<5, 5, 5, 1, 2, 3, 4, 5, 6, 7, 8, 9>>) >>,  \* a 12-digit number
      << <<"S", "N">> \o S263384 \o <<" ">> \o S274341 \o <<"_">> >> }
                                                        \* glued to word chars

SkuA == <<"A">>
SkuB == <<"B">>

\* values of an order's items
ItemsInputs ==
    { <<>>,                                             \* key missing: []
      << << [sku |-> <<SkuA>>] >> >>,
      << << [sku |-> <<SkuA>>], [sku |-> <<SkuB>>] >> >>,
      << << [sku |-> <<>>], [sku |-> <<SkuB>>] >> >> }  \* first item has no sku

OrderInputs ==
    { [orderNumber |-> << <<"#", "1">> >>, internalNotes |-> n, items |-> it] :
        n \in NotesInputs, it \in ItemsInputs }

\* all sequences over S of length at most n
RECURSIVE SeqsUpTo(_, _)
SeqsUpTo(S, n) ==
    IF n = 0 THEN {<<>>}
    ELSE LET shorter == SeqsUpTo(S, n - 1)
         IN  shorter \cup {Append(q, x) : q \in {r \in shorter : Len(r) = n - 1}, x \in S}

----------------------------------------------------------------------------
(* Idle values of the variables a specification does not use               *)

NoCall == [endpoint |-> "none", oid |-> 0, page |-> 0, attempt |-> 0,
           reqs |-> <<>>, resps |-> <<>>, state |-> "idle", body |-> <<>>]

IngestIdle ==
    /\ phase = "idle"
    /\ page = 0
    /\ all_shipments = <<>>
    /\ order_ids = <<>>
    /\ all_orders = <<>>
    /\ call = NoCall
    /\ srvPages = 0
    /\ idsToFetch = {}
    /\ fetchOutcome = <<>>
    /\ pagesFetched = <<>>
    /\ getCalls = <<>>
    /\ served = <<>>
    /\ ingestResult = <<>>

\* a GPXScraper that was not constructed; after __init__ `made` is TRUE and
\* _pw, _browser are None (FALSE).  The counters are ghosts: the calls of
\* start() and close(), and the releases close() performed.
NoSession == [made |-> FALSE, pw |-> FALSE, browser |-> FALSE, loggedIn |-> FALSE,
              startCalls |-> 0, closeCalls |-> 0, browserCloses |-> 0,
              pwStops |-> 0]

RunIdle ==
    /\ pc = "idle"
    /\ dry_run = FALSE
    /\ orders = <<>>
    /\ records = <<>>
    /\ recs0 = <<>>
    /\ sess = NoSession
    /\ gpx_scraper = FALSE
    /\ lkIdx = 0
    /\ payload = <<>>
    /\ sheetRows = <<>>
    /\ csvFile = FALSE
    /\ driveFiles = 0
    /\ log = <<>>

ParseIdle ==
    /\ pOrders = <<>>
    /\ pIdx = 0
    /\ pRecords = <<>>
    /\ pDone = FALSE

DateIdle ==
    /\ date_str = <<>>
    /\ sheet_date = <<>>
    /\ dateState = "idle"

LookupIdle ==
    /\ lkSerial = <<>>
    /\ page_text = <<>>
    /\ result = <<>>
    /\ lkState = "idle"
    /\ branch = "none"
    /\ shots = 0

----------------------------------------------------------------------------
(* SpecParse: parse_orders, one for-loop iteration per step                *)

InitParse ==
    /\ pOrders \in SeqsUpTo(OrderInputs, MaxOrders)
    /\ pIdx = 0
    /\ pRecords = <<>>
    /\ pDone = FALSE
    /\ IngestIdle
    /\ RunIdle
    /\ DateIdle
    /\ LookupIdle

\* one iteration of `for order in orders` (main.py 200-240)
ParseOrder ==
    /\ ~pDone
    /\ pIdx < Len(pOrders)
    /\ pRecords' = pRecords \o OrderRecords(pOrders[pIdx + 1])
    /\ pIdx' = pIdx + 1
    /\ UNCHANGED <<pOrders, pDone, ingestVars, runVars, dateVars,
                   lookupVars>>

\* the loop is exhausted: return records (main.py 242-243)
ParseReturn ==
    /\ ~pDone
    /\ pIdx = Len(pOrders)
    /\ pDone' = TRUE
    /\ UNCHANGED <<pOrders, pIdx, pRecords, ingestVars, runVars, dateVars,
                   lookupVars>>

NextParse == ParseOrder \/ ParseReturn

SpecParse == InitParse /\ [][NextParse]_vars

\* number of serials extract_serial_numbers finds in an order's notes
SerialCount(order) ==
    Len(extract_serial_numbers(GetOr(order.internalNotes, <<>>)))

RECURSIVE SumExpected(_, _)
\* sum over the first n orders of max(1, serial count)
SumExpected(os, n) ==
    IF n = 0 THEN 0
    ELSE SumExpected(os, n - 1) +
         (IF SerialCount(os[n]) >= 1 THEN SerialCount(os[n]) ELSE 1)

\* C8: after the loop has consumed n orders, parse_orders holds exactly the
\* sum over those orders of max(1, serial count) records: every order adds at
\* least one record, and exactly its serial count when it has a serial.
C8_RecordCount ==
    /\ Len(pRecords) = SumExpected(pOrders, pIdx)
    /\ pIdx >= 1 => Len(pRecords) >= pIdx

\* an order without serials and an order with two serials were both parsed
C8_Witness ==
    /\ pDone
    /\ Len(pOrders) = 2
    /\ SerialCount(pOrders[1]) = 0
    /\ SerialCount(pOrders[2]) = 2
    /\ Len(pRecords) = 3

----------------------------------------------------------------------------
(* STEP 1: ShipStationClient._get and get_shipped_orders                   *)
(*                                                                         *)
(* One action per iteration of the retry loop of _get, by the status of    *)
(* the response it receives; the caller's continuation is a separate       *)
(* action.  time.sleep changes no state.  The Retry-After header of a 429  *)
(* is absent or a number of seconds, so int() on it does not raise.        *)

MaxPages == 3

RetryCeiling == 5
RATE_LIMIT   == 429

\* statuses of the responses the server gives
Statuses == {200, RATE_LIMIT, 404, 500}

\* requests.Response.raise_for_status: raises for 4xx and 5xx
RaisesForStatus(s) == s >= 400 /\ s < 600

\* order ids the shipments refer to; 0 stands for a missing/falsy orderId
OrderIds == {1, 2}

\* the "shipments" list of one page of the listing, as the orderId of each
PageInputs == {<<>>, <<1>>, <<1, 1>>, <<1, 2>>, <<0, 2>>}

\* a call of _get: url and params are fixed when it is entered; oid is the
\* order id in the url, pg the "page" parameter (0 when there is none)
NewCall(endpoint, oid, pg) ==
    [endpoint |-> endpoint, oid |-> oid, page |-> pg, attempt |-> 0,
     reqs |-> <<>>, resps |-> <<>>, state |-> "active", body |-> <<>>]

\* the request an iteration of _get sends: session.get(url, params=params)
Request(c) == [endpoint |-> c.endpoint, oid |-> c.oid, page |-> c.page]

CallFailed == call.state \in {"http_error", "exhausted"}

InitIngest ==
    /\ phase = "listing"
    /\ page = 1
    /\ all_shipments = <<>>
    /\ order_ids = <<>>
    /\ all_orders = <<>>
    /\ call = NewCall("/shipments", 0, 1)
    /\ srvPages \in 0..MaxPages
    /\ idsToFetch = {}
    /\ fetchOutcome = [o \in OrderIds |-> "none"]
    /\ pagesFetched = <<>>
    /\ getCalls = <<Request(NewCall("/shipments", 0, 1))>>
    /\ served = <<>>
    /\ ingestResult = <<>>
    /\ ParseIdle
    /\ RunIdle
    /\ DateIdle
    /\ LookupIdle

\* ghost update: how the detail fetch of the call's order id ended
NoteOutcome(how) ==
    fetchOutcome' = IF call.endpoint = "/orders"
                    THEN [fetchOutcome EXCEPT ![call.oid] = how]
                    ELSE fetchOutcome

\* (mutation of AfterRateLimit: the loop allows one more iteration)
AfterRateLimitOff(attempt) ==
    IF attempt > RetryCeiling THEN "exhausted" ELSE "active"

\* the state of _get after an iteration that received 429 and `continue`d:
\* the for-loop over range(5) ends after the fifth, and _get raises
AfterRateLimit(attempt) ==
    IF attempt >= RetryCeiling THEN "exhausted" ELSE "active"

\* (mutation of GetRateLimited: a throttled listing request moves on to the
\* next page)
GetRateLimitedSkips ==
    /\ call.state = "active"
    /\ call' = [call EXCEPT !.attempt = @ + 1,
                            !.page = IF call.endpoint = "/shipments" THEN @ + 1 ELSE @,
                            !.reqs = Append(@, Request(call)),
                            !.resps = Append(@, RATE_LIMIT),
                            !.state = AfterRateLimit(call.attempt + 1)]
    /\ page' = IF call.endpoint = "/shipments" THEN page + 1 ELSE page
    /\ IF AfterRateLimit(call.attempt + 1) = "exhausted"
       THEN NoteOutcome("fail")
       ELSE UNCHANGED fetchOutcome
    /\ UNCHANGED <<phase, all_shipments, order_ids, all_orders, srvPages,
                   idsToFetch, pagesFetched, ingestResult, getCalls, served,
                   parseVars, runVars, dateVars,
                   lookupVars>>

\* an iteration of _get that receives 429 (main.py 103-108, 111)
GetRateLimited ==
    /\ call.state = "active"
    /\ call' = [call EXCEPT !.attempt = @ + 1,
                            !.reqs = Append(@, Request(call)),
                            !.resps = Append(@, RATE_LIMIT),
                            !.state = AfterRateLimit(call.attempt + 1)]
    /\ IF AfterRateLimit(call.attempt + 1) = "exhausted"
       THEN NoteOutcome("fail")
       ELSE UNCHANGED fetchOutcome
    /\ UNCHANGED <<phase, page, all_shipments, order_ids, all_orders, srvPages,
                   idsToFetch, pagesFetched, ingestResult, getCalls, served,
                   parseVars, runVars, dateVars,
                   lookupVars>>

\* (mutation of OnResponse: an error status is retried like a 429)
OnResponseRetry(s) == IF RaisesForStatus(s) THEN "active" ELSE "returned"

\* what _get does with a response that is not 429 (main.py 109-110)
OnResponse(s) == IF RaisesForStatus(s) THEN "http_error" ELSE "returned"

\* an iteration of _get that receives an error status: raise_for_status raises
GetHttpError ==
    /\ call.state = "active"
    /\ \E s \in Statuses \ {200, RATE_LIMIT} :
          /\ call' = [call EXCEPT !.attempt = @ + 1,
                                  !.reqs = Append(@, Request(call)),
                                  !.resps = Append(@, s),
                                  !.state = OnResponse(s)]
          /\ IF OnResponse(s) = "returned"
             THEN NoteOutcome("ok") ELSE NoteOutcome("fail")
    /\ UNCHANGED <<phase, page, all_shipments, order_ids, all_orders, srvPages,
                   idsToFetch, pagesFetched, ingestResult, getCalls, served,
                   parseVars, runVars, dateVars,
                   lookupVars>>

\* the JSON bodies the server may send for the call's endpoint: a page of
\* shipments (with the page count srvPages), or the order asked for
Bodies ==
    IF call.endpoint = "/shipments"
    THEN {[shipments |-> sh, pages |-> srvPages] : sh \in PageInputs}
    ELSE {[orderId |-> call.oid]}

\* an iteration of _get that receives 200: return resp.json()
GetSuccess ==
    /\ call.state = "active"
    /\ \E b \in Bodies :
          /\ call' = [call EXCEPT !.attempt = @ + 1,
                                  !.reqs = Append(@, Request(call)),
                                  !.resps = Append(@, 200),
                                  !.state = OnResponse(200),
                                  !.body = <<b>>]
          /\ served' = IF call.endpoint = "/shipments"
                       THEN Append(served, [page |-> call.page,
                                            shipments |-> b.shipments])
                       ELSE served
    /\ IF OnResponse(200) = "returned"
       THEN NoteOutcome("ok") ELSE NoteOutcome("fail")
    /\ UNCHANGED <<phase, page, all_shipments, order_ids, all_orders, srvPages,
                   idsToFetch, pagesFetched, ingestResult, getCalls,
                   parseVars, runVars, dateVars,
                   lookupVars>>

\* set(s.get("orderId") for s in all_shipments if s.get("orderId"))
UniqueOrderIds(shipments) ==
    {shipments[k] : k \in {j \in 1..Len(shipments) : shipments[j] # 0}}

\* the truthy order ids of the shipments, one per shipment
RECURSIVE TruthyIds(_)
TruthyIds(shipments) ==
    IF shipments = <<>> THEN <<>>
    ELSE (IF shipments[1] # 0 THEN <<shipments[1]>> ELSE <<>>)
            \o TruthyIds(Tail(shipments))

\* (mutation of OrderIdLists: the ids are not passed through set())
OrderIdListsNoDedup(shipments) == {TruthyIds(shipments)}

\* list(set(...)): the distinct ids in some order (a set's iteration order)
OrderIdLists(shipments) ==
    LET ids == UniqueOrderIds(shipments)
    IN  {q \in [1..Cardinality(ids) -> ids] : \A i, j \in DOMAIN q : i # j => q[i] # q[j]}

\* (mutation of LastPage: an empty page also ends the listing)
LastPageOrEmpty(pg, data) == pg >= data.pages \/ data.shipments = <<>>

\* if page >= data.get("pages", 1): break
LastPage(pg, data) == pg >= data.pages

\* the body of the listing loop after _get returned (main.py 138-153)
ListingPage ==
    /\ phase = "listing"
    /\ call.state = "returned"
    /\ LET data      == call.body[1]
           shipments == data.shipments
           acc       == all_shipments \o shipments
       IN   /\ all_shipments' = acc
            /\ pagesFetched' = Append(pagesFetched, page)
            /\ IF LastPage(page, data)
               THEN /\ page' = page
                    /\ call' = NoCall
                    /\ IF acc = <<>>
                       THEN /\ phase' = "done"
                            /\ UNCHANGED <<order_ids, idsToFetch>>
                       ELSE /\ phase' = "detail"
                            /\ order_ids' \in OrderIdLists(acc)
                            /\ idsToFetch' = UniqueOrderIds(acc)
                    /\ UNCHANGED getCalls
               ELSE /\ page' = page + 1
                    /\ call' = NewCall("/shipments", 0, page + 1)
                    /\ getCalls' = Append(getCalls,
                                          Request(NewCall("/shipments", 0, page + 1)))
                    /\ UNCHANGED <<phase, order_ids, idsToFetch>>
    /\ UNCHANGED <<all_orders, srvPages, fetchOutcome, ingestResult,
                   served,
                   parseVars, runVars, dateVars,
                   lookupVars>>

\* _get raised inside the listing loop: nothing catches it
ListingRaise ==
    /\ phase = "listing"
    /\ CallFailed
    /\ phase' = "raised"
    /\ call' = NoCall
    /\ UNCHANGED <<page, all_shipments, order_ids, all_orders, srvPages,
                   idsToFetch, fetchOutcome, pagesFetched, ingestResult,
                   getCalls, served,
                   parseVars, runVars, dateVars,
                   lookupVars>>

\* `for oid in order_ids` takes the next id and calls _get(f"/orders/{oid}")
DetailStart ==
    /\ phase = "detail"
    /\ call = NoCall
    /\ order_ids # <<>>
    /\ LET oid == Head(order_ids)
       IN  /\ order_ids' = Tail(order_ids)
           /\ call' = NewCall("/orders", oid, 0)
           /\ getCalls' = Append(getCalls, Request(NewCall("/orders", oid, 0)))
    /\ UNCHANGED <<phase, page, all_shipments, all_orders, srvPages, idsToFetch,
                   fetchOutcome, pagesFetched, ingestResult, served,
                   parseVars, runVars, dateVars,
                   lookupVars>>

\* all_orders.append(order) (main.py 159-160)
DetailOk ==
    /\ phase = "detail"
    /\ call.state = "returned"
    /\ all_orders' = Append(all_orders, call.body[1])
    /\ call' = NoCall
    /\ UNCHANGED <<phase, page, all_shipments, order_ids, srvPages, idsToFetch,
                   fetchOutcome, pagesFetched, ingestResult, getCalls, served,
                   parseVars, runVars, dateVars,
                   lookupVars>>

\* (mutation of DetailFail: no try/except around the detail fetch)
DetailFailAborts ==
    /\ phase = "detail"
    /\ CallFailed
    /\ phase' = "raised"
    /\ call' = NoCall
    /\ UNCHANGED <<page, all_shipments, order_ids, all_orders, srvPages,
                   idsToFetch, fetchOutcome, pagesFetched, ingestResult,
                   getCalls, served,
                   parseVars, runVars, dateVars,
                   lookupVars>>

\* except Exception: log.warning (main.py 161-162)
DetailFail ==
    /\ phase = "detail"
    /\ CallFailed
    /\ call' = NoCall
    /\ UNCHANGED <<phase, page, all_shipments, order_ids, all_orders, srvPages,
                   idsToFetch, fetchOutcome, pagesFetched, ingestResult,
                   getCalls, served,
                   parseVars, runVars, dateVars,
                   lookupVars>>

\* the detail loop is exhausted: return all_orders (main.py 164-165)
IngestReturn ==
    /\ phase = "detail"
    /\ call = NoCall
    /\ order_ids = <<>>
    /\ phase' = "done"
    /\ ingestResult' = all_orders
    /\ UNCHANGED <<page, all_shipments, order_ids, all_orders, call, srvPages,
                   idsToFetch, fetchOutcome, pagesFetched, getCalls, served,
                   parseVars, runVars, dateVars,
                   lookupVars>>

NextIngest ==
    \/ GetRateLimited
    \/ GetHttpError
    \/ GetSuccess
    \/ ListingPage
    \/ ListingRaise
    \/ DetailStart
    \/ DetailOk
    \/ DetailFail
    \/ IngestReturn

SpecIngest == InitIngest /\ [][NextIngest]_vars

\* k rate-limit responses
RECURSIVE RateLimits(_)
RateLimits(k) == IF k = 0 THEN <<>> ELSE Append(RateLimits(k - 1), 429)

\* C5: a call of _get issues at most 5 requests; k <= 4 rate-limit responses
\* followed by a success make it return the success body, and 5 rate-limit
\* responses make it fail with the retries-exhausted error (no 6th request).
C5_RetryCeiling ==
    /\ call.attempt = Len(call.resps)
    /\ Len(call.resps) <= 5
    /\ \A k \in 0..4 :
          call.resps = Append(RateLimits(k), 200)
              => call.state = "returned" /\ call.body \in {<<b>> : b \in Bodies}
    /\ call.resps = RateLimits(5) => call.state = "exhausted"
    /\ call.state = "exhausted" => call.resps = RateLimits(5)

\* four rate-limit responses, then a success on the fifth attempt
C5_Witness ==
    /\ call.state = "returned"
    /\ call.resps = <<429, 429, 429, 429, 200>>

\* C6: a response that is neither 200 nor 429 ends the call at once with the
\* upstream (HTTP) error, whatever number of rate-limit responses preceded
\* it; every response before the last one of a call was a rate-limit one.
C6_NoRetryOnError ==
    /\ \A i \in 1..Len(call.resps) :
          call.resps[i] \notin {200, 429}
              => i = Len(call.resps) /\ call.state = "http_error"
    /\ \A i \in 1..(Len(call.resps) - 1) : call.resps[i] = 429
    /\ call.state = "http_error" =>
          call.resps # <<>> /\ call.resps[Len(call.resps)] \notin {200, 429}

\* an error status after two rate-limit responses
C6_Witness ==
    /\ call.state = "http_error"
    /\ call.resps = <<429, 429, 500>>

\* order ids of the orders get_shipped_orders returned
ReturnedIds == {ingestResult[k].orderId : k \in 1..Len(ingestResult)}

\* C7: a failed detail fetch never aborts get_shipped_orders; when it returns,
\* a detail fetch was attempted for every deduplicated order id and the
\* result holds exactly the orders whose detail fetch succeeded, once each.
C7_PartialFailure ==
    /\ phase = "raised" => idsToFetch = {}
    /\ phase = "done" =>
          /\ \A oid \in idsToFetch : fetchOutcome[oid] \in {"ok", "fail"}
          /\ ReturnedIds = {oid \in idsToFetch : fetchOutcome[oid] = "ok"}
          /\ Len(ingestResult) = Cardinality(ReturnedIds)

\* two orders: the fetch of one succeeded, of the other failed
C7_Witness ==
    /\ phase = "done"
    /\ idsToFetch = {1, 2}
    /\ fetchOutcome[1] = "fail"
    /\ fetchOutcome[2] = "ok"
    /\ Len(ingestResult) = 1

----------------------------------------------------------------------------
(* STEP 3-5: GPXScraper, enrich_with_gpx and the orchestrator run()        *)
(*                                                                         *)
(* get_shipped_orders is represented by its result (SpecIngest models it   *)
(* step by step), lookup_serial by its outcome: the fields it extracted,   *)
(* an unresolved result, an exception its handler absorbed, or an          *)
(* exception raised by the handler's own screenshot, which nothing in      *)
(* lookup_serial catches.  GPXScraper.close and os.unlink do not raise.    *)

MaxRunOrders == 2

IMEI1  == Num(<<8, 6, 2, 6, 0, 1, 7, 6, 8, 0, 0, 0, 4, 7, 7>>)
ICCID1 == Num(<<8, 9, 0, 1, 1, 7, 6, 0, 0, 0, 0, 0, 0, 0, 0, 0, 0, 0, 1>>)

SHEET_HEADERS ==
    << <<"S", "K", "U">>, <<>>, <<"S", "e", "r", "i", "a", "l">>,
       <<"I", "M", "E", "I">>, <<"I", "C", "C", "I", "D">>, <<>>,
       <<"S", "I", "M", " ", "P", "r", "o", "v", "i", "d", "e", "r">>,
       <<"R", "e", "t", "a", "i", "l", "e", "r">>,
       <<"S", "t", "a", "t", "u", "s">> >>

\* orders get_shipped_orders may return to run()
RunOrderInputs ==
    { [orderNumber |-> << <<"#", "1">> >>, internalNotes |-> <<>>,
       items |-> << << [sku |-> <<SkuA>>], [sku |-> <<SkuB>>] >> >>],
      [orderNumber |-> << <<"#", "2">> >>, internalNotes |-> << S263384 >>,
       items |-> << << [sku |-> <<SkuA>>] >> >>],
      [orderNumber |-> << <<"#", "3">> >>,
       internalNotes |-> << S263384 \o <<"\n">> \o S274341 >>,
       items |-> << << [sku |-> <<SkuA>>], [sku |-> <<SkuB>>] >> >>] }

\* number of occurrences of event ev in the log
Count(l, ev) == Cardinality({i \in 1..Len(l) : l[i] = ev})

\* GPXScraper.close (main.py 520-524)
Close(s) ==
    [s EXCEPT !.closeCalls = @ + 1,
              !.browserCloses = IF s.browser THEN @ + 1 ELSE @,
              !.pwStops = IF s.pw THEN @ + 1 ELSE @]

\* to_lookup = [r for r in records if r["serial"] != "NOT FOUND"], as the
\* positions in `records` of the (shared) record objects
RECURSIVE LookupFrom(_, _)
LookupFrom(recs, k) ==
    IF k > Len(recs) THEN <<>>
    ELSE (IF recs[k].serial # NOT_FOUND THEN <<k>> ELSE <<>>)
         \o LookupFrom(recs, k + 1)
ToLookup(recs) == LookupFrom(recs, 1)

\* the row run() writes for a record (main.py 714-717)
CsvRow(r) ==
    << <<>>, <<>>, r.serial, r.imei, r.iccid, <<>>, r.sim_provider,
       r.retailer, r.status >>

\* (mutation of CsvRows: rows are written for the looked-up records only)
CsvRowsLookedUp(recs) ==
    <<SHEET_HEADERS>> \o [k \in 1..Len(ToLookup(recs)) |-> CsvRow(recs[ToLookup(recs)[k]])]

\* the rows run() hands to its csv writer (main.py 712-717)
CsvRows(recs) == <<SHEET_HEADERS>> \o [k \in 1..Len(recs) |-> CsvRow(recs[k])]

\* the row create_and_populate_sheet writes for a record (main.py 631-634)
SheetRow(r) ==
    << <<>>, <<>>, r.serial, r.imei, r.iccid, <<>>, r.sim_provider,
       r.retailer, r.status >>

\* the rows create_and_populate_sheet hands to its csv writer (629-634)
SheetRows(recs) == <<SHEET_HEADERS>> \o [k \in 1..Len(recs) |-> SheetRow(recs[k])]

\* (mutation of Merge: the merge also clears the status of the record)
MergeClearsStatus(recs, idx, gpx_data) ==
    [recs EXCEPT ![idx].imei = gpx_data.imei,
                 ![idx].iccid = gpx_data.iccid,
                 ![idx].sim_provider = gpx_data.sim_provider,
                 ![idx].retailer = SHOPIFY,
                 ![idx].status = <<>>]

\* lines 545-548 of enrich_with_gpx: merge gpx_data into the record
Merge(recs, idx, gpx_data) ==
    [recs EXCEPT ![idx].imei = gpx_data.imei,
                 ![idx].iccid = gpx_data.iccid,
                 ![idx].sim_provider = gpx_data.sim_provider,
                 ![idx].retailer = SHOPIFY]

EmptyResult == [imei |-> <<>>, iccid |-> <<>>, sim_provider |-> <<>>]

\* results of lookup_serial in which at least one field was extracted
FoundResults ==
    { [imei |-> IMEI1, iccid |-> ICCID1, sim_provider |-> <<>>],
      [imei |-> IMEI1, iccid |-> <<>>,   sim_provider |-> <<>>],
      [imei |-> <<>>,  iccid |-> ICCID1, sim_provider |-> <<>>] }

Terminal == pc \in {"returned_empty", "returned_dry", "done", "raised"}

InitRun ==
    /\ pc = "ingest"
    /\ dry_run \in BOOLEAN
    /\ orders = <<>>
    /\ records = <<>>
    /\ recs0 = <<>>
    /\ sess = NoSession
    /\ gpx_scraper = FALSE
    /\ lkIdx = 0
    /\ payload = <<>>
    /\ sheetRows = <<>>
    /\ csvFile = FALSE
    /\ driveFiles = 0
    /\ log = <<>>
    /\ ParseIdle
    /\ IngestIdle
    /\ DateIdle
    /\ LookupIdle

\* orders = ss.get_shipped_orders(...); if not orders: return  (684-688)
RunIngest ==
    /\ pc = "ingest"
    /\ \E os \in SeqsUpTo(RunOrderInputs, MaxRunOrders) :
          /\ orders' = os
          /\ pc' = IF os = <<>> THEN "returned_empty" ELSE "parse"
    /\ UNCHANGED <<dry_run, records, recs0, sess, gpx_scraper, lkIdx, payload,
                   sheetRows, csvFile, driveFiles, log, parseVars, ingestVars, dateVars,
                   lookupVars>>

\* get_shipped_orders raised (a listing request failed): run() raises
RunIngestRaise ==
    /\ pc = "ingest"
    /\ pc' = "raised"
    /\ UNCHANGED <<dry_run, orders, records, recs0, sess, gpx_scraper, lkIdx,
                   payload, sheetRows, csvFile, driveFiles, log, parseVars,
                   ingestVars, dateVars,
                   lookupVars>>

\* records = parse_orders(orders); if not records: return  (693-696)
RunParse ==
    /\ pc = "parse"
    /\ records' = parse_orders(orders)
    /\ recs0' = parse_orders(orders)
    /\ pc' = IF parse_orders(orders) = <<>> THEN "returned_empty" ELSE "enrich"
    /\ UNCHANGED <<dry_run, orders, sess, gpx_scraper, lkIdx, payload,
                   sheetRows, csvFile, driveFiles, log, parseVars, ingestVars, dateVars,
                   lookupVars>>

\* enrich_with_gpx up to the construction of the scraper (532-539)
EnrichBegin ==
    /\ pc = "enrich"
    /\ IF ToLookup(records) = <<>>
       THEN /\ pc' = "build"
            /\ gpx_scraper' = FALSE
            /\ UNCHANGED sess
       ELSE /\ pc' = "start"
            /\ sess' = [NoSession EXCEPT !.made = TRUE]
            /\ UNCHANGED gpx_scraper
    /\ lkIdx' = 0
    /\ UNCHANGED <<dry_run, orders, records, recs0, payload, sheetRows,
                   csvFile, driveFiles, log, parseVars, ingestVars, dateVars,
                   lookupVars>>

\* scraper.start() succeeds (270-275, 277-328)
StartOk ==
    /\ pc = "start"
    /\ sess' = [sess EXCEPT !.pw = TRUE, !.browser = TRUE, !.loggedIn = TRUE,
                            !.startCalls = @ + 1]
    /\ log' = Append(log, "start")
    /\ pc' = "lookup"
    /\ UNCHANGED <<dry_run, orders, records, recs0, gpx_scraper, lkIdx, payload,
                   sheetRows, csvFile, driveFiles, parseVars, ingestVars, dateVars,
                   lookupVars>>

\* how far start() got when it raised: sync_playwright().start() failed,
\* chromium.launch failed, or new_context/new_page/_login failed
StartStages == {"playwright", "launch", "login"}

\* (mutation of StartFail: the scraper is returned although start() failed)
StartFailKeepsScraper ==
    /\ pc = "start"
    /\ \E stage \in StartStages :
          sess' = [sess EXCEPT !.pw = stage # "playwright",
                               !.browser = stage = "login",
                               !.startCalls = @ + 1]
    /\ log' = log \o <<"start", "start_failed">>
    /\ gpx_scraper' = TRUE
    /\ pc' = "build"
    /\ UNCHANGED <<dry_run, orders, records, recs0, lkIdx, payload, sheetRows,
                   csvFile, driveFiles, parseVars, ingestVars, dateVars,
                   lookupVars>>

\* scraper.start() raises; except Exception: scraper.close(); return
\* records, None  (541-542, 550-553)
StartFail ==
    /\ pc = "start"
    /\ \E stage \in StartStages :
          sess' = Close([sess EXCEPT !.pw = stage # "playwright",
                                     !.browser = stage = "login",
                                     !.startCalls = @ + 1])
    /\ log' = log \o <<"start", "start_failed", "close">>
    /\ gpx_scraper' = FALSE
    /\ pc' = "build"
    /\ UNCHANGED <<dry_run, orders, records, recs0, lkIdx, payload, sheetRows,
                   csvFile, driveFiles, parseVars, ingestVars, dateVars,
                   lookupVars>>

InLookup == pc = "lookup" /\ lkIdx < Len(ToLookup(records))

\* a lookup_serial call that extracts a field, and the merge (544-549)
LookupFound ==
    /\ InLookup
    /\ \E res \in FoundResults :
          records' = Merge(records, ToLookup(records)[lkIdx + 1], res)
    /\ lkIdx' = lkIdx + 1
    /\ log' = Append(log, "lookup")
    /\ UNCHANGED <<pc, dry_run, orders, recs0, sess, gpx_scraper, payload,
                   sheetRows, csvFile, driveFiles, parseVars, ingestVars, dateVars,
                   lookupVars>>

\* a lookup_serial call that finds nothing: screenshot, empty result (396-407)
LookupUnresolved ==
    /\ InLookup
    /\ records' = Merge(records, ToLookup(records)[lkIdx + 1], EmptyResult)
    /\ lkIdx' = lkIdx + 1
    /\ log' = log \o <<"lookup", "shot">>
    /\ UNCHANGED <<pc, dry_run, orders, recs0, sess, gpx_scraper, payload,
                   sheetRows, csvFile, driveFiles, parseVars, ingestVars, dateVars,
                   lookupVars>>

\* an exception inside the try of lookup_serial; the handler's screenshot
\* succeeds, the re-navigation succeeds or its failure is passed over, and
\* the empty result is returned (426-435)
LookupError ==
    /\ InLookup
    /\ records' = Merge(records, ToLookup(records)[lkIdx + 1], EmptyResult)
    /\ lkIdx' = lkIdx + 1
    /\ log' = log \o <<"lookup", "lookup_error", "shot">>
    /\ UNCHANGED <<pc, dry_run, orders, recs0, sess, gpx_scraper, payload,
                   sheetRows, csvFile, driveFiles, parseVars, ingestVars, dateVars,
                   lookupVars>>

\* (mutation of LookupErrorEscapes: the closed scraper is returned to run())
LookupErrorEscapesKeepsScraper ==
    /\ InLookup
    /\ sess' = Close(sess)
    /\ gpx_scraper' = TRUE
    /\ log' = log \o <<"lookup", "lookup_error", "close">>
    /\ pc' = "build"
    /\ UNCHANGED <<dry_run, orders, records, recs0, lkIdx, payload, sheetRows,
                   csvFile, driveFiles, parseVars, ingestVars, dateVars,
                   lookupVars>>

\* an exception inside the try of lookup_serial, and the handler's own
\* screenshot (427) raises as well: the exception leaves lookup_serial and
\* reaches `except Exception` of enrich_with_gpx (550-553)
LookupErrorEscapes ==
    /\ InLookup
    /\ sess' = Close(sess)
    /\ gpx_scraper' = FALSE
    /\ log' = log \o <<"lookup", "lookup_error", "close">>
    /\ pc' = "build"
    /\ UNCHANGED <<dry_run, orders, records, recs0, lkIdx, payload, sheetRows,
                   csvFile, driveFiles, parseVars, ingestVars, dateVars,
                   lookupVars>>

\* the for-loop over to_lookup is exhausted: return records, scraper (556)
EnrichReturn ==
    /\ pc = "lookup"
    /\ lkIdx = Len(ToLookup(records))
    /\ gpx_scraper' = TRUE
    /\ pc' = "build"
    /\ UNCHANGED <<dry_run, orders, records, recs0, sess, lkIdx, payload,
                   sheetRows, csvFile, driveFiles, log, parseVars, ingestVars, dateVars,
                   lookupVars>>

\* build the CSV and write the temp file (706-723)
BuildPayload ==
    /\ pc = "build"
    /\ payload' = CsvRows(records)
    /\ csvFile' = TRUE
    /\ pc' = IF dry_run THEN "dry" ELSE "drive"
    /\ UNCHANGED <<dry_run, orders, records, recs0, sess, gpx_scraper, lkIdx,
                   sheetRows, driveFiles, log, parseVars, ingestVars, dateVars,
                   lookupVars>>

\* creating or writing the temp file raises (719-723): run() raises; these
\* lines are outside every try
BuildPayloadFail ==
    /\ pc = "build"
    /\ payload' = CsvRows(records)
    /\ csvFile' \in BOOLEAN
    /\ pc' = "raised"
    /\ UNCHANGED <<dry_run, orders, records, recs0, sess, gpx_scraper, lkIdx,
                   sheetRows, driveFiles, log, parseVars, ingestVars, dateVars,
                   lookupVars>>

\* the dry-run branch (726-736)
DryRun ==
    /\ pc = "dry"
    /\ IF gpx_scraper
       THEN sess' = Close(sess) /\ log' = log \o <<"dry_copy", "close">>
       ELSE UNCHANGED sess /\ log' = Append(log, "dry_copy")
    /\ csvFile' = FALSE
    /\ pc' = "returned_dry"
    /\ UNCHANGED <<dry_run, orders, records, recs0, gpx_scraper, lkIdx, payload,
                   sheetRows, driveFiles, parseVars, ingestVars, dateVars,
                   lookupVars>>

\* shutil.copy raises in the dry-run branch (729): run() raises
DryRunCopyFail ==
    /\ pc = "dry"
    /\ log' = Append(log, "dry_copy_failed")
    /\ pc' = "raised"
    /\ UNCHANGED <<dry_run, orders, records, recs0, sess, gpx_scraper, lkIdx,
                   payload, sheetRows, csvFile, driveFiles, parseVars,
                   ingestVars, dateVars,
                   lookupVars>>

\* get_google_services and create_and_populate_sheet succeed (739-741)
DriveUpload ==
    /\ pc = "drive"
    /\ sheetRows' = SheetRows(records)
    /\ driveFiles' = driveFiles + 1
    /\ log' = log \o <<"drive", "drive_ok">>
    /\ pc' = "bulk"
    /\ UNCHANGED <<dry_run, orders, records, recs0, sess, gpx_scraper, lkIdx,
                   payload, csvFile, parseVars, ingestVars, dateVars,
                   lookupVars>>

\* where the Drive step failed: in get_google_services, or in the upload
\* request of create_and_populate_sheet
DriveStages == {"auth", "upload"}

\* (mutation of DriveUploadFail: the failure is logged and run() goes on)
DriveUploadFailSwallowed ==
    /\ pc = "drive"
    /\ \E stage \in DriveStages :
          sheetRows' = IF stage = "upload" THEN SheetRows(records) ELSE <<>>
    /\ log' = log \o <<"drive", "drive_failed">>
    /\ pc' = "bulk"
    /\ UNCHANGED <<dry_run, orders, records, recs0, sess, gpx_scraper, lkIdx,
                   payload, csvFile, driveFiles, parseVars, ingestVars, dateVars,
                   lookupVars>>

\* the Drive step raises; finally: close the scraper, unlink (739-741,
\* 755-758); the exception leaves run()
DriveUploadFail ==
    /\ pc = "drive"
    /\ \E stage \in DriveStages :
          sheetRows' = IF stage = "upload" THEN SheetRows(records) ELSE <<>>
    /\ IF gpx_scraper
       THEN sess' = Close(sess) /\ log' = log \o <<"drive", "drive_failed", "close">>
       ELSE UNCHANGED sess /\ log' = log \o <<"drive", "drive_failed">>
    /\ csvFile' = FALSE
    /\ pc' = "raised"
    /\ UNCHANGED <<dry_run, orders, records, recs0, gpx_scraper, lkIdx, payload,
                   driveFiles, parseVars, ingestVars, dateVars,
                   lookupVars>>

\* gpx_scraper.upload_csv succeeds; finally: close, unlink (745-747, 755-762)
BulkUpdateOk ==
    /\ pc = "bulk"
    /\ gpx_scraper
    /\ sess' = Close(sess)
    /\ log' = log \o <<"bulk", "bulk_committed", "bulk_ok", "close">>
    /\ csvFile' = FALSE
    /\ pc' = "done"
    /\ UNCHANGED <<dry_run, orders, records, recs0, gpx_scraper, lkIdx, payload,
                   sheetRows, driveFiles, parseVars, ingestVars, dateVars,
                   lookupVars>>

\* the step of upload_csv that raised (454-512); at "await_commit" the
\* Update Devices button was already clicked
BulkSteps == {"devices", "actions", "update_retailer", "attach", "verify",
              "commit", "await_commit"}

\* (mutation of BulkUpdateFail: no except around upload_csv, only finally)
BulkUpdateFailPropagates ==
    /\ pc = "bulk"
    /\ gpx_scraper
    /\ \E step \in BulkSteps :
          log' = log \o (IF step = "await_commit"
                         THEN <<"bulk", "bulk_committed", "bulk_failed", "close">>
                         ELSE <<"bulk", "bulk_failed", "close">>)
    /\ sess' = Close(sess)
    /\ csvFile' = FALSE
    /\ pc' = "raised"
    /\ UNCHANGED <<dry_run, orders, records, recs0, gpx_scraper, lkIdx, payload,
                   sheetRows, driveFiles, parseVars, ingestVars, dateVars,
                   lookupVars>>

\* upload_csv raises at some step (515-518); except Exception in run() logs
\* it (748-750); finally: close, unlink; run() completes (755-762)
BulkUpdateFail ==
    /\ pc = "bulk"
    /\ gpx_scraper
    /\ \E step \in BulkSteps :
          log' = log \o (IF step = "await_commit"
                         THEN <<"bulk", "bulk_committed", "bulk_failed", "close">>
                         ELSE <<"bulk", "bulk_failed", "close">>)
    /\ sess' = Close(sess)
    /\ csvFile' = FALSE
    /\ pc' = "done"
    /\ UNCHANGED <<dry_run, orders, records, recs0, gpx_scraper, lkIdx, payload,
                   sheetRows, driveFiles, parseVars, ingestVars, dateVars,
                   lookupVars>>

\* gpx_scraper is None: the retailer update is skipped (751-762)
BulkSkip ==
    /\ pc = "bulk"
    /\ ~gpx_scraper
    /\ log' = Append(log, "bulk_skipped")
    /\ csvFile' = FALSE
    /\ pc' = "done"
    /\ UNCHANGED <<dry_run, orders, records, recs0, sess, gpx_scraper, lkIdx,
                   payload, sheetRows, driveFiles, parseVars, ingestVars, dateVars,
                   lookupVars>>

NextRun ==
    \/ RunIngest
    \/ RunIngestRaise
    \/ RunParse
    \/ EnrichBegin
    \/ StartOk
    \/ StartFail
    \/ LookupFound
    \/ LookupUnresolved
    \/ LookupError
    \/ LookupErrorEscapes
    \/ EnrichReturn
    \/ BuildPayload
    \/ BuildPayloadFail
    \/ DryRun
    \/ DryRunCopyFail
    \/ DriveUpload
    \/ DriveUploadFail
    \/ BulkUpdateOk
    \/ BulkUpdateFail
    \/ BulkSkip

SpecRun == InitRun /\ [][NextRun]_vars

----------------------------------------------------------------------------
(* Properties of run()                                                     *)

\* the position of the first occurrence of ev in the log, 0 when absent
FirstAt(l, ev) ==
    IF Count(l, ev) = 0 THEN 0
    ELSE CHOOSE i \in 1..Len(l) : l[i] = ev /\ \A j \in 1..(i - 1) : l[j] # ev

\* C1: whenever run() has ended and start() was called, close() was called
\* exactly once, on every exit path.
C1_ReleasedOnce ==
    (Terminal /\ sess.startCalls >= 1) => sess.closeCalls = 1

\* C2: once the lookup phase of a logged-in session is over, lookup_serial
\* was invoked for every non-sentinel record, whatever lookups failed.
C2_EveryRecordLookedUp ==
    (sess.loggedIn /\ pc \notin {"start", "lookup"})
        => Count(log, "lookup") = Len(ToLookup(records))

\* C3: when start() fails, no lookup is performed, the payload is not
\* uploaded to the document store and the bulk update is not attempted.
C3_AuthFailureAbortsRun ==
    Count(log, "start_failed") >= 1
        => /\ Count(log, "lookup") = 0
           /\ Count(log, "drive") = 0
           /\ Count(log, "bulk") = 0

\* C3 (amended): when start() fails, no lookup is performed, run() holds no
\* scraper and never attempts the bulk update; the run is not aborted: a
\* live run that completes has uploaded the payload to the document store.
C3_AuthFailureSkipsSession ==
    Count(log, "start_failed") >= 1
        => /\ Count(log, "lookup") = 0
           /\ Count(log, "bulk") = 0
           /\ ~gpx_scraper
           /\ pc # "start"
           /\ pc = "done" => Count(log, "drive_ok") = 1 /\ driveFiles = 1

\* a live run whose login failed completed with the Drive upload done
C3_Witness ==
    /\ Count(log, "start_failed") = 1
    /\ pc = "done"
    /\ driveFiles = 1
    /\ Count(log, "bulk_skipped") = 1

\* the header row the payload must start with
C4_Header ==
    << <<"S", "K", "U">>, <<>>, <<"S", "e", "r", "i", "a", "l">>,
       <<"I", "M", "E", "I">>, <<"I", "C", "C", "I", "D">>, <<>>,
       <<"S", "I", "M", " ", "P", "r", "o", "v", "i", "d", "e", "r">>,
       <<"R", "e", "t", "a", "i", "l", "e", "r">>,
       <<"S", "t", "a", "t", "u", "s">> >>

\* rows are the header followed by one row per record, in order, each with
\* the record's fields under the header's columns
RowsCarry(rows, recs) ==
    /\ rows[1] = C4_Header
    /\ Len(rows) = Len(recs) + 1
    /\ \A k \in 1..Len(recs) :
          rows[k + 1] = << recs[k].sku, <<>>, recs[k].serial, recs[k].imei,
                           recs[k].iccid, <<>>, recs[k].sim_provider,
                           recs[k].retailer, recs[k].status >>

\* C4: the payload run() builds, and the one create_and_populate_sheet
\* builds, is the header row followed by one row per record in extraction
\* order carrying sku, serial, imei, iccid, simProvider, retailer, status.
C4_PayloadRows ==
    /\ payload # <<>> => RowsCarry(payload, records)
    /\ sheetRows # <<>> => RowsCarry(sheetRows, records)

\* C9: the bulk update is attempted only after the document-store upload
\* succeeded; when that upload fails the bulk update is never attempted,
\* run() raises instead of completing, and an opened session was released.
C9_UploadBeforeBulk ==
    /\ Count(log, "bulk") >= 1
          => /\ Count(log, "drive_ok") >= 1
             /\ FirstAt(log, "drive_ok") < FirstAt(log, "bulk")
    /\ Count(log, "drive_failed") >= 1
          => /\ Count(log, "bulk") = 0
             /\ pc = "raised"
             /\ driveFiles = 0
             /\ sess.startCalls >= 1 => sess.closeCalls = 1
             /\ sess.browser => sess.browserCloses = 1

\* the Drive upload failed with a logged-in session open
C9_Witness ==
    /\ Count(log, "drive_failed") = 1
    /\ sess.loggedIn
    /\ Count(log, "lookup_error") = 0
    /\ Count(log, "lookup") = 2
    /\ sess.closeCalls = 1
    /\ sess.browserCloses = 1
    /\ pc = "raised"

\* C10: when the bulk update failed, run() completed as done without
\* raising, the session was released, and the document-store upload was
\* made once and its file is still there.
C10_BulkFailureNonFatal ==
    Count(log, "bulk_failed") >= 1
        => /\ pc = "done"
           /\ sess.closeCalls = 1
           /\ sess.browserCloses = 1
           /\ sess.pwStops = 1
           /\ Count(log, "drive") = 1
           /\ Count(log, "drive_ok") = 1
           /\ driveFiles = 1

\* the bulk update failed after the Update Devices click
C10_Witness ==
    /\ Count(log, "bulk_failed") = 1
    /\ Count(log, "bulk_committed") = 1
    /\ pc = "done"

\* C11: in a dry run neither the document-store upload nor the bulk update
\* is ever invoked, the payload is only copied locally, and a session that
\* was opened has been released once run() has stopped.
C11_DryRunNoSideEffects ==
    dry_run
        => /\ Count(log, "drive") = 0
           /\ Count(log, "bulk") = 0
           /\ driveFiles = 0
           /\ sheetRows = <<>>
           /\ pc = "returned_dry" => Count(log, "dry_copy") = 1
           /\ (Terminal /\ sess.startCalls >= 1) => sess.closeCalls = 1

----------------------------------------------------------------------------
(* SpecNotes: parse_orders on one order whose notes range over the texts   *)
(* built from a few segments (digit runs of 4 to 12 digits, separators,    *)
(* word characters), so that digit runs meet every kind of neighbour.      *)

MaxSegs == 3

D1234         == Num(<<1, 2, 3, 4>>)
D12345        == Num(<<1, 2, 3, 4, 5>>)
D1234567      == Num(<<1, 2, 3, 4, 5, 6, 7>>)
D555123456789 == Num(<<5, 5, 5, 1, 2, 3, 4, 5, 6, 7, 8, 9>>)

NoteSegments ==
    { D1234, D12345, S263384, S274341, D1234567, D555123456789,
      <<" ">>, <<"a">>, <<"_">> }

RECURSIVE Flatten(_)
Flatten(q) == IF q = <<>> THEN <<>> ELSE q[1] \o Flatten(Tail(q))

\* notes longer than the excerpt kept in raw_notes, without a serial
LongNote == [k \in 1..(RawNotesLen + 5) |-> IF k <= RawNotesLen THEN "x" ELSE "y"]

\* the example of the docstrings: two serials on two lines
TwoLineNote == S263384 \o <<"\n">> \o S274341

\* values of internalNotes: missing/None, or a text
NoteValues ==
    {<<>>} \cup { <<t>> : t \in {Flatten(q) : q \in SeqsUpTo(NoteSegments, MaxSegs)}
                               \cup {LongNote, TwoLineNote} }

InitNotes ==
    /\ pOrders \in { << [orderNumber |-> << <<"#", "1">> >>,
                         internalNotes |-> n, items |-> it] >> :
                       n \in NoteValues, it \in ItemsInputs }
    /\ pIdx = 0
    /\ pRecords = <<>>
    /\ pDone = FALSE
    /\ IngestIdle
    /\ RunIdle
    /\ DateIdle
    /\ LookupIdle

SpecNotes == InitNotes /\ [][NextParse]_vars

\* the notes text of the order, as parse_orders reads it
NotesText == GetOr(pOrders[1].internalNotes, <<>>)

\* the skus of the order's line items
NotesSkus ==
    LET items == GetDefault(pOrders[1].items, <<>>)
    IN  [k \in 1..Len(items) |-> GetDefault(items[k].sku, <<>>)]

\* the serials of the records parse_orders emitted (none for a sentinel)
EmittedSerials ==
    IF pRecords # <<>> /\ pRecords[1].serial = NOT_FOUND THEN <<>>
    ELSE [k \in 1..Len(pRecords) |-> pRecords[k].serial]

\* C12: every token extract_serial_numbers returned is the text of a span of
\* 5 to 7 digits whose neighbouring characters, if any, are not digits; so
\* no part of a longer digit run is returned.
C12_TokensBounded ==
    pIdx = 1 =>
        LET t     == NotesText
            spans == FindSpansFrom(t, 1)
        IN  /\ Len(EmittedSerials) = Len(spans)
            /\ \A k \in 1..Len(spans) :
                  LET b == spans[k][1]
                      e == spans[k][1] + spans[k][2] - 1
                  IN  /\ EmittedSerials[k] = SubSeq(t, b, e)
                      /\ e - b + 1 \in 5..7
                      /\ e <= Len(t)
                      /\ \A j \in b..e : t[j] \in Digits
                      /\ b > 1 => t[b - 1] \notin Digits
                      /\ e < Len(t) => t[e + 1] \notin Digits

\* a 12-digit number yields nothing, the serial after it is returned
C12_Witness ==
    /\ pIdx = 1
    /\ NotesText = D555123456789 \o <<" ">> \o S263384
    /\ EmittedSerials = <<S263384>>

\* C13: for an order with N >= 1 serials and m skus, record i (0-based) has
\* the i-th extracted serial, and sku s_i when i < m, else s_0 when m >= 1,
\* else the empty string.
C13_SkuAlignment ==
    pIdx = 1 =>
        LET serials == extract_serial_numbers(NotesText)
            skus    == NotesSkus
        IN  serials # <<>> =>
               /\ Len(pRecords) = Len(serials)
               /\ \A i \in 0..(Len(serials) - 1) :
                     /\ pRecords[i + 1].serial = serials[i + 1]
                     /\ i < Len(skus) => pRecords[i + 1].sku = skus[i + 1]
                     /\ (i >= Len(skus) /\ Len(skus) >= 1)
                           => pRecords[i + 1].sku = skus[1]
                     /\ Len(skus) = 0 => pRecords[i + 1].sku = <<>>

\* notes "263384\n274341" with items [A, B]: records (263384, A), (274341, B)
C13_Witness ==
    /\ pIdx = 1
    /\ NotesText = TwoLineNote
    /\ NotesSkus = <<SkuA, SkuB>>
    /\ Len(pRecords) = 2
    /\ pRecords[1].serial = S263384 /\ pRecords[1].sku = SkuA
    /\ pRecords[2].serial = S274341 /\ pRecords[2].sku = SkuB

\* the skus joined by ", "
RECURSIVE CommaJoined(_, _)
CommaJoined(skus, n) ==
    IF n = 0 THEN <<>>
    ELSE IF n = 1 THEN skus[1]
    ELSE CommaJoined(skus, n - 1) \o <<",", " ">> \o skus[n]

\* C14: an order without extractable serials (absent or empty notes
\* included) yields exactly one record: the sentinel serial, the skus of all
\* line items joined by commas, empty imei/iccid/sim_provider, and the
\* first 200 characters of the notes.
C14_Sentinel ==
    pIdx = 1 =>
        LET t == NotesText
        IN  extract_serial_numbers(t) = <<>> =>
               /\ Len(pRecords) = 1
               /\ pRecords[1].serial = <<"N", "O", "T", " ", "F", "O", "U", "N", "D">>
               /\ pRecords[1].sku = CommaJoined(NotesSkus, Len(NotesSkus))
               /\ pRecords[1].imei = <<>>
               /\ pRecords[1].iccid = <<>>
               /\ pRecords[1].sim_provider = <<>>
               /\ Len(pRecords[1].raw_notes) = (IF Len(t) < 200 THEN Len(t) ELSE 200)
               /\ \A k \in 1..Len(pRecords[1].raw_notes) :
                     pRecords[1].raw_notes[k] = t[k]

\* notes of more than 200 characters on an order with two items
C14_Witness ==
    /\ pIdx = 1
    /\ NotesText = LongNote
    /\ Len(NotesSkus) = 2
    /\ pRecords[1].serial = NOT_FOUND
    /\ Len(pRecords[1].raw_notes) = 200

\* length of the run of digits that starts at position i of the text
RunLen(t, i) ==
    LET stops == {j \in i..Len(t) : t[j] \notin Digits}
    IN  IF stops = {} THEN Len(t) - i + 1
        ELSE (CHOOSE j \in stops : \A k \in stops : j <= k) - i

\* positions where a matching token starts: a maximal run of 5 to 7 digits
\* with no word character on either side
TokenStarts(t) ==
    {i \in 1..Len(t) :
        /\ t[i] \in Digits
        /\ i = 1 \/ ~IsWord(t[i - 1])
        /\ RunLen(t, i) \in 5..7
        /\ i + RunLen(t, i) > Len(t) \/ ~IsWord(t[i + RunLen(t, i)])}

\* the elements of a set of numbers in ascending order
RECURSIVE Ascending(_)
Ascending(S) ==
    IF S = {} THEN <<>>
    ELSE LET lo == CHOOSE x \in S : \A y \in S : x <= y
         IN  <<lo>> \o Ascending(S \ {lo})

\* C20: the serials come out in the left-to-right order of the matching
\* tokens of the text, one per occurrence (a token occurring k times gives k
\* serials), and parse_orders emits one record for each of them.
C20_OrderAndMultiplicity ==
    pIdx = 1 =>
        LET t      == NotesText
            starts == Ascending(TokenStarts(t))
        IN  /\ EmittedSerials =
                  [k \in 1..Len(starts) |->
                      SubSeq(t, starts[k], starts[k] + RunLen(t, starts[k]) - 1)]
            /\ starts # <<>> => Len(pRecords) = Len(starts)

\* the same serial twice in one text gives two records
C20_Witness ==
    /\ pIdx = 1
    /\ NotesText = S263384 \o <<" ">> \o S263384
    /\ Len(pRecords) = 2
    /\ pRecords[1].serial = S263384
    /\ pRecords[2].serial = S263384

----------------------------------------------------------------------------
(* Pagination and order-level deduplication of get_shipped_orders          *)

\* the listing requests among the _get calls made so far
ListingCalls == SelectSeq(getCalls, LAMBDA r : r.endpoint = "/shipments")

\* C17: throttling never corrupts the pagination: the pages accumulated are
\* 1, 2, ... in order, none skipped and none twice; `page` is one past the
\* pages accumulated, so it advances only with a successful response for the
\* current page; and every request of a call of _get, the retries after a
\* rate-limit response included, is the request the call was entered with.
C17_PaginationIntact ==
    /\ \A i \in 1..Len(pagesFetched) : pagesFetched[i] = i
    /\ \A i \in 1..Len(served) : served[i].page = i
    /\ Len(pagesFetched) <= Len(served)
    /\ Len(served) <= Len(pagesFetched) + 1
    /\ phase = "listing" =>
          /\ page = Len(pagesFetched) + 1
          /\ call.endpoint = "/shipments" /\ call.page = page
    /\ phase \in {"detail", "done"} =>
          Len(pagesFetched) = (IF srvPages >= 1 THEN srvPages ELSE 1)
    /\ call # NoCall =>
          /\ Request(call) = getCalls[Len(getCalls)]
          /\ \A i \in 1..Len(call.reqs) : call.reqs[i] = Request(call)

\* page 1 was accumulated; the request for page 2 was throttled twice and
\* then answered
C17_Witness ==
    /\ phase = "listing"
    /\ pagesFetched = <<1>>
    /\ call.resps = <<429, 429, 200>>
    /\ call.state = "returned"
    /\ call.reqs = <<Request(call), Request(call), Request(call)>>
    /\ call.page = 2

\* the shipments of the pages the server answered, in order
ServedShipments == Flatten([k \in 1..Len(served) |-> served[k].shipments])

\* C18: with a reported page count P >= 1 the listing requests pages 1, 2,
\* ... in order and never a page beyond P; the loop goes on while the page
\* is below P and is left only after page P, whatever the pages hold, and
\* then all_shipments holds the shipments of every page 1..P.
C18_ListingStops ==
    srvPages >= 1 =>
        /\ \A i \in 1..Len(ListingCalls) : ListingCalls[i].page = i
        /\ Len(ListingCalls) <= srvPages
        /\ (phase = "listing" /\ call.state = "returned" /\ page < srvPages)
              => ENABLED (ListingPage /\ phase' = "listing")
        /\ phase \in {"detail", "done"} =>
              /\ Len(ListingCalls) = srvPages
              /\ page = srvPages
              /\ Len(served) = srvPages
              /\ all_shipments = ServedShipments

\* three pages reported: the intermediate and the final page were empty
C18_Witness ==
    /\ srvPages = 3
    /\ phase = "detail"
    /\ pagesFetched = <<1, 2, 3>>
    /\ served[1].shipments = <<1, 2>>
    /\ served[2].shipments = <<>>
    /\ served[3].shipments = <<>>
    /\ all_shipments = <<1, 2>>

\* number of calls of _get for the detail of order oid
DetailCalls(oid) ==
    Cardinality({k \in 1..Len(getCalls) :
                    getCalls[k].endpoint = "/orders" /\ getCalls[k].oid = oid})

\* the order ids the accumulated shipments refer to
ReferencedIds == {all_shipments[k] : k \in 1..Len(all_shipments)} \ {0}

\* C19: the detail of an order is fetched (one call of _get, whose retries
\* after a rate limit are C5's matter) at most once per order id and only
\* for ids the shipments refer to; when get_shipped_orders returns, exactly
\* once for every id referred to, however many shipments refer to it; the
\* orders collected have pairwise different ids.
C19_OrderDedup ==
    /\ \A oid \in OrderIds : DetailCalls(oid) <= 1
    /\ \A oid \in OrderIds : DetailCalls(oid) = 1 => oid \in ReferencedIds
    /\ phase = "done" => \A oid \in ReferencedIds : DetailCalls(oid) = 1
    /\ \A i, j \in 1..Len(all_orders) :
          i # j => all_orders[i].orderId # all_orders[j].orderId
    /\ \A i, j \in 1..Len(ingestResult) :
          i # j => ingestResult[i].orderId # ingestResult[j].orderId

\* order 1 on three shipments over two pages, order 2 on one: two orders
C19_Witness ==
    /\ phase = "done"
    /\ all_shipments = <<1, 1, 1, 2>>
    /\ DetailCalls(1) = 1
    /\ DetailCalls(2) = 1
    /\ Len(ingestResult) = 2

----------------------------------------------------------------------------
(* SpecSession: one GPXScraper driven by any sequence of calls: start() at *)
(* most once, succeeding or raising at any of its statements, and close()  *)
(* at any moment, any number of times up to MaxCloses.                     *)

MaxCloses == 5

\* the statement of start() that raised: lines 271, 272, 273, 274, 275
SessStages == {"playwright", "launch", "context", "page", "login"}

InitSession ==
    /\ sess = [NoSession EXCEPT !.made = TRUE]
    /\ log = <<>>
    /\ pc = "idle"
    /\ dry_run = FALSE
    /\ orders = <<>>
    /\ records = <<>>
    /\ recs0 = <<>>
    /\ gpx_scraper = FALSE
    /\ lkIdx = 0
    /\ payload = <<>>
    /\ sheetRows = <<>>
    /\ csvFile = FALSE
    /\ driveFiles = 0
    /\ ParseIdle
    /\ IngestIdle
    /\ DateIdle
    /\ LookupIdle

\* start() runs to its end (main.py 270-275)
SessStartOk ==
    /\ sess.startCalls = 0
    /\ sess' = [sess EXCEPT !.pw = TRUE, !.browser = TRUE, !.loggedIn = TRUE,
                            !.startCalls = @ + 1]
    /\ log' = Append(log, "start")
    /\ UNCHANGED <<pc, dry_run, orders, records, recs0, gpx_scraper, lkIdx,
                   payload, sheetRows, csvFile, driveFiles, parseVars, ingestVars, dateVars,
                   lookupVars>>

\* start() raises at one of its statements: _pw is set once line 271 has
\* returned, _browser once line 272 has
SessStartFail ==
    /\ sess.startCalls = 0
    /\ \E stage \in SessStages :
          /\ sess' = [sess EXCEPT !.pw = stage # "playwright",
                                  !.browser = stage \notin {"playwright", "launch"},
                                  !.startCalls = @ + 1]
          /\ log' = log \o <<"start", stage>>
    /\ UNCHANGED <<pc, dry_run, orders, records, recs0, gpx_scraper, lkIdx,
                   payload, sheetRows, csvFile, driveFiles, parseVars, ingestVars, dateVars,
                   lookupVars>>

\* close() (main.py 520-524)
SessClose ==
    /\ sess.closeCalls < MaxCloses
    /\ sess' = Close(sess)
    /\ log' = Append(log, "close")
    /\ UNCHANGED <<pc, dry_run, orders, records, recs0, gpx_scraper, lkIdx,
                   payload, sheetRows, csvFile, driveFiles, parseVars, ingestVars, dateVars,
                   lookupVars>>

NextSession == SessStartOk \/ SessStartFail \/ SessClose

SpecSession == InitSession /\ [][NextSession]_vars

\* C15: whatever the state of the session and however often close() is
\* called, the browser and the automation driver are each released at most
\* once in total: a second close() releases nothing.
C15_CloseIdempotent ==
    /\ sess.browserCloses <= 1
    /\ sess.pwStops <= 1

----------------------------------------------------------------------------
(* SpecDate: format_sheet_date on texts of the shape dddd-dd-dd, among     *)
(* them texts that are not dates, for which strptime raises.               *)

\* the years of the inputs: leap and common years, a century that is a leap
\* year and one that is not, years ending in 0x
DateYears ==
    { Num(<<1, 9, 9, 9>>), Num(<<2, 0, 0, 0>>), Num(<<2, 0, 0, 7>>),
      Num(<<2, 0, 2, 4>>), Num(<<2, 0, 2, 6>>), Num(<<2, 1, 0, 0>>) }

DateInputs ==
    { y \o <<"-", m1, m2, "-", d1, d2>> :
        y \in DateYears, m1 \in {"0", "1"}, m2 \in Digits,
        d1 \in {"0", "1", "2", "3"}, d2 \in Digits }

DigitVal(c) == CHOOSE n \in 0..9 : DigitChar[n + 1] = c

\* int() of a digit string
RECURSIVE ToInt(_)
ToInt(t) ==
    IF t = <<>> THEN 0
    ELSE 10 * ToInt(SubSeq(t, 1, Len(t) - 1)) + DigitVal(t[Len(t)])

\* str() of a natural number
RECURSIVE Decimal(_)
Decimal(n) ==
    IF n < 10 THEN <<DigitChar[n + 1]>>
    ELSE Decimal(n \div 10) \o <<DigitChar[(n % 10) + 1]>>

\* the format specs :02d and %y: at least two digits, zero-padded
Pad2(n) == IF n < 10 THEN <<"0">> \o Decimal(n) ELSE Decimal(n)

IsLeap(y) == (y % 4 = 0 /\ y % 100 # 0) \/ y % 400 = 0

DaysInMonth(y, m) ==
    IF m = 2 THEN (IF IsLeap(y) THEN 29 ELSE 28)
    ELSE IF m \in {4, 6, 9, 11} THEN 30 ELSE 31

\* datetime.strptime(date_str, "%Y-%m-%d") on a text dddd-dd-dd: the fields
\* as numbers
strptime(ds) ==
    [year  |-> ToInt(SubSeq(ds, 1, 4)),
     month |-> ToInt(SubSeq(ds, 6, 7)),
     day   |-> ToInt(SubSeq(ds, 9, 10))]

\* strptime raises ValueError unless the fields form a date
StrptimeAccepts(ds) ==
    LET dt == strptime(ds)
    IN  /\ dt.year >= 1
        /\ dt.month \in 1..12
        /\ dt.day \in 1..DaysInMonth(dt.year, dt.month)

\* (mutation of format_sheet_date: the month is zero-padded like the day)
format_sheet_date_padded(ds) ==
    LET dt == strptime(ds)
    IN  Pad2(dt.month) \o <<".">> \o Pad2(dt.day) \o <<".">> \o Pad2(dt.year % 100)

\* f"{dt.month}.{dt.day:02d}.{dt.strftime('%y')}"
format_sheet_date(ds) ==
    LET dt == strptime(ds)
    IN  Decimal(dt.month) \o <<".">> \o Pad2(dt.day) \o <<".">> \o Pad2(dt.year % 100)

InitDate ==
    /\ date_str \in DateInputs
    /\ sheet_date = <<>>
    /\ dateState = "call"
    /\ ParseIdle
    /\ IngestIdle
    /\ RunIdle
    /\ LookupIdle

\* format_sheet_date returns (main.py 607-608)
FormatReturn ==
    /\ dateState = "call"
    /\ StrptimeAccepts(date_str)
    /\ sheet_date' = format_sheet_date(date_str)
    /\ dateState' = "returned"
    /\ UNCHANGED <<date_str, parseVars, ingestVars, runVars,
                   lookupVars>>

\* strptime raises ValueError (main.py 607)
FormatRaise ==
    /\ dateState = "call"
    /\ ~StrptimeAccepts(date_str)
    /\ dateState' = "raised"
    /\ UNCHANGED <<date_str, sheet_date, parseVars, ingestVars, runVars,
                   lookupVars>>

NextDate == FormatReturn \/ FormatRaise

SpecDate == InitDate /\ [][NextDate]_vars

D2026_02_26 == Num(<<2, 0, 2, 6>>) \o <<"-", "0", "2", "-", "2", "6">>
D2024_02_29 == Num(<<2, 0, 2, 4>>) \o <<"-", "0", "2", "-", "2", "9">>
D1999_12_31 == Num(<<1, 9, 9, 9>>) \o <<"-", "1", "2", "-", "3", "1">>
D2007_10_05 == Num(<<2, 0, 0, 7>>) \o <<"-", "1", "0", "-", "0", "5">>

\* C16: the value returned for YYYY-MM-DD is the month without its leading
\* zero, ".", the two digits DD, ".", and the last two digits of YYYY; dates
\* of the calendar are formatted, not rejected; 2026-02-26 gives "2.26.26".
C16_SheetDate ==
    /\ dateState = "returned" =>
          LET yy == SubSeq(date_str, 3, 4)
              mm == SubSeq(date_str, 6, 7)
              dd == SubSeq(date_str, 9, 10)
              m  == IF mm[1] = "0" THEN <<mm[2]>> ELSE mm
          IN  sheet_date = m \o <<".">> \o dd \o <<".">> \o yy
    /\ (dateState = "returned" /\ date_str = D2026_02_26)
          => sheet_date = <<"2", ".", "2", "6", ".", "2", "6">>
    /\ (dateState = "returned" /\ date_str = D2007_10_05)
          => sheet_date = <<"1", "0", ".", "0", "5", ".", "0", "7">>
    /\ date_str \in {D2026_02_26, D2024_02_29, D1999_12_31, D2007_10_05}
          => dateState # "raised"

\* 2026-02-26 was formatted as "2.26.26"
C16_Witness ==
    /\ dateState = "returned"
    /\ date_str = D2026_02_26
    /\ sheet_date = <<"2", ".", "2", "6", ".", "2", "6">>

\* ------------------------------------------------------------------------
\* SpecLookup: one call of GPXScraper.lookup_serial.  The state follows the
\* call through the search, the two-tier extraction from the text of the
\* results page, the screenshot of an unresolved search, the clearing of
\* the search box and the exception handler.
\* ------------------------------------------------------------------------

\* characters matched by \s in the page texts of the model
White == {" ", "\n", "\t"}

L_SERIAL == <<"S", "e", "r", "i", "a", "l", ":">>
L_IMEI   == <<"I", "M", "E", "I", ":">>
L_ICCID  == <<"I", "C", "C", "I", "D", ":">>

\* \d{14,15} and \d{19,22}
ImeiMin  == 14
ImeiMax  == 15
IccidMin == 19
IccidMax == 22

\* the length of the slice `nearby`
NearbyLen == 300

\* the literal lit stands in t at position i
LitAt(t, i, lit) ==
    /\ i >= 1
    /\ i + Len(lit) - 1 <= Len(t)
    /\ \A k \in 1..Len(lit) : t[i + k - 1] = lit[k]

\* \s* from position i: the first position at or after i that holds no
\* whitespace (Len(t) + 1 when the text ends in whitespace)
SkipWs(t, i) ==
    LET stops == {j \in i..Len(t) : t[j] \notin White}
    IN  IF stops = {} THEN (IF i > Len(t) THEN i ELSE Len(t) + 1)
        ELSE CHOOSE j \in stops : \A k \in stops : j <= k

\* the least element of a non-empty set of positions
Least(S) == CHOOSE j \in S : \A k \in S : j <= k

\* Serial:\s*<serial> at position i: the position after the match, 0 when
\* there is no match at i
SerialAt(t, i, serial) ==
    LET b == SkipWs(t, i + Len(L_SERIAL))
    IN  IF LitAt(t, i, L_SERIAL) /\ LitAt(t, b, serial)
        THEN b + Len(serial) ELSE 0

\* <label>\s*(\d{lo,hi}) at position i: the captured group, <<>> when there
\* is no match at i.  The group is greedy: the first hi digits of a longer
\* run.
FieldAt(t, i, label, lo, hi) ==
    LET f == SkipWs(t, i + Len(label))
        n == RunLen(t, f)
    IN  IF LitAt(t, i, label) /\ f <= Len(t) /\ n >= lo
        THEN SubSeq(t, f, f + (IF n > hi THEN hi ELSE n) - 1) ELSE <<>>

\* the primary pattern at position i: <<imei, iccid>>, or <<>> when there
\* is no match at i.  \s+ after the IMEI group leaves the group no digit to
\* give back, so the run of digits has 14 or 15 digits exactly.
PatternAt(t, i, serial) ==
    LET c == SerialAt(t, i, serial)
        d == SkipWs(t, c)
        f == SkipWs(t, d + Len(L_IMEI))
        n == RunLen(t, f)
        h == SkipWs(t, f + n)
        iccid == FieldAt(t, h, L_ICCID, IccidMin, IccidMax)
    IN  IF /\ c > 0
           /\ d > c
           /\ LitAt(t, d, L_IMEI)
           /\ f <= Len(t)
           /\ n >= ImeiMin /\ n <= ImeiMax
           /\ h > f + n
           /\ iccid # <<>>
        THEN <<SubSeq(t, f, f + n - 1), iccid>> ELSE <<>>

\* re.search(pattern, page_text): the leftmost match, <<>> when none
PatternSearch(t, serial) ==
    LET starts == {i \in 1..Len(t) : t[i] = "S" /\ PatternAt(t, i, serial) # <<>>}
    IN  IF starts = {} THEN <<>> ELSE PatternAt(t, Least(starts), serial)

\* re.search(serial_pattern, page_text).start(), 0 when there is no match
SerialSearch(t, serial) ==
    LET starts == {i \in 1..Len(t) : t[i] = "S" /\ SerialAt(t, i, serial) > 0}
    IN  IF starts = {} THEN 0 ELSE Least(starts)

\* the whole of the text from start on, in place of the slice
NearbyWhole(t, start) == SubSeq(t, start, Len(t))

\* page_text[start : start + 300]
Nearby(t, start) ==
    SubSeq(t, start, IF start + NearbyLen - 1 > Len(t) THEN Len(t)
                     ELSE start + NearbyLen - 1)

\* re.search(<label>\s*(\d{lo,hi}), nearby).group(1), <<>> when no match
FieldSearch(t, label, lo, hi) ==
    LET starts == {i \in 1..Len(t) : t[i] = label[1] /\ FieldAt(t, i, label, lo, hi) # <<>>}
    IN  IF starts = {} THEN <<>> ELSE FieldAt(t, Least(starts), label, lo, hi)

\* the extraction of lookup_serial: the result and the branch taken
Extraction(t, serial) ==
    LET match  == PatternSearch(t, serial)
        start  == SerialSearch(t, serial)
        nearby == Nearby(t, start)
    IN  IF match # <<>>
        THEN [result |-> [imei |-> match[1], iccid |-> match[2],
                          sim_provider |-> <<>>],
              branch |-> "primary"]
        ELSE IF start > 0
        THEN [result |-> [imei  |-> FieldSearch(nearby, L_IMEI, ImeiMin, ImeiMax),
                          iccid |-> FieldSearch(nearby, L_ICCID, IccidMin, IccidMax),
                          sim_provider |-> <<>>],
              branch |-> "fallback"]
        ELSE [result |-> EmptyResult, branch |-> "absent"]

\* ---- the pages and the serials of SpecLookup ----

Sp == <<" ">>
Nl == <<"\n">>
Filler(n) == [k \in 1..n |-> "x"]

S27434   == Num(<<2, 7, 4, 3, 4>>)
S2743410 == Num(<<2, 7, 4, 3, 4, 1, 0>>)
S999999  == Num(<<9, 9, 9, 9, 9, 9>>)
IMEI2    == Num(<<1, 1, 1, 1, 1, 1, 1, 1, 1, 1, 1, 1, 1, 1, 1>>)
ICCID2   == Num(<<2, 2, 2, 2, 2, 2, 2, 2, 2, 2, 2, 2, 2, 2, 2, 2, 2, 2, 2>>)

\* the card of another device, as the results page prints it
OtherCard ==
    L_SERIAL \o Sp \o S999999 \o Sp \o Sp \o L_IMEI \o Sp \o IMEI2
        \o Sp \o Sp \o L_ICCID \o Sp \o ICCID2 \o Nl

\* what precedes the serial entry: nothing, the head of the device's card
\* ("274341", newline, "ID: 337927"), or the card of another device
PagePre ==
    << <<>>,
       S274341 \o Nl \o <<"I", "D", ":", " ">> \o Num(<<3, 3, 7, 9, 2, 7>>) \o Sp \o Sp,
       OtherCard >>

\* the serial entry: none, "Serial: 274341", "Serial:274341", and the entry
\* of the device 2743410
PageSerial ==
    << <<>>,
       L_SERIAL \o Sp \o S274341,
       L_SERIAL \o S274341,
       L_SERIAL \o Sp \o S2743410 >>

\* what separates the serial entry from the first field: two spaces, a
\* newline, nothing, and other text that leaves the field well inside the
\* slice `nearby`, across its end, or beyond it
PageGap1 ==
    << Sp \o Sp,
       Nl,
       <<>>,
       Sp \o Filler(NearbyLen - 50) \o Sp,
       Sp \o Filler(NearbyLen - 36) \o Sp,
       Sp \o Filler(NearbyLen) \o Sp >>

\* a field entry: none, an IMEI of 15, 14, 13 and 16 digits, an ICCID of
\* 19, 18 and 23 digits
PageField ==
    << <<>>,
       L_IMEI \o Sp \o IMEI1,
       L_IMEI \o SubSeq(IMEI1, 1, 14),
       L_IMEI \o Sp \o SubSeq(IMEI1, 1, 13),
       L_IMEI \o Sp \o IMEI1 \o <<"0">>,
       L_ICCID \o Sp \o ICCID1,
       L_ICCID \o Sp \o SubSeq(ICCID1, 1, 18),
       L_ICCID \o ICCID1 \o Num(<<2, 3, 4, 5>>) >>

\* what separates the two fields
PageGap2 == << Sp \o Sp, <<>> >>

Range(q) == {q[k] : k \in 1..Len(q)}

\* the texts of the results page
PageTexts ==
    {a \o b \o g \o f \o h \o k :
        a \in Range(PagePre), b \in Range(PageSerial), g \in Range(PageGap1),
        f \in Range(PageField), h \in Range(PageGap2), k \in Range(PageField)}

\* the serials searched: the device's serial and a serial that is a proper
\* prefix of it
LookupSerials == {S274341, S27434}

\* ---- the call ----

\* lookup_serial(serial) begins: result holds three empty fields
InitLookup ==
    /\ lkSerial \in LookupSerials
    /\ page_text \in PageTexts
    /\ result = EmptyResult
    /\ lkState = "search"
    /\ branch = "none"
    /\ shots = 0
    /\ ParseIdle
    /\ IngestIdle
    /\ RunIdle
    /\ DateIdle

AllEmpty(r) == r.imei = <<>> /\ r.iccid = <<>> /\ r.sim_provider = <<>>

\* the search box, the wait for the results or inner_text raises
SearchRaises ==
    /\ lkState = "search"
    /\ lkState' = "handler"
    /\ branch' = "error"
    /\ UNCHANGED <<lkSerial, page_text, result, shots,
                   parseVars, ingestVars, runVars, dateVars>>

\* the body text is read and the two tiers are applied to it
Extract ==
    /\ lkState = "search"
    /\ LET x == Extraction(page_text, lkSerial)
       IN  /\ result' = x.result
           /\ branch' = x.branch
           /\ lkState' = IF AllEmpty(x.result) THEN "capture" ELSE "clear"
    /\ UNCHANGED <<lkSerial, page_text, shots,
                   parseVars, ingestVars, runVars, dateVars>>

\* the screenshot of an unresolved search is written
CaptureOk ==
    /\ lkState = "capture"
    /\ shots' = shots + 1
    /\ lkState' = "clear"
    /\ UNCHANGED <<lkSerial, page_text, result, branch,
                   parseVars, ingestVars, runVars, dateVars>>

\* page.screenshot raises inside the try block
CaptureRaises ==
    /\ lkState = "capture"
    /\ lkState' = "handler"
    /\ UNCHANGED <<lkSerial, page_text, result, branch, shots,
                   parseVars, ingestVars, runVars, dateVars>>

\* the search is cleared, whatever the two attempts do, and result returned
ClearSearch ==
    /\ lkState = "clear"
    /\ lkState' = "returned"
    /\ UNCHANGED <<lkSerial, page_text, result, branch, shots,
                   parseVars, ingestVars, runVars, dateVars>>

\* the handler writes its screenshot, goes back to the admin page whatever
\* goto does, and result is returned
HandlerShotOk ==
    /\ lkState = "handler"
    /\ shots' = shots + 1
    /\ lkState' = "returned"
    /\ UNCHANGED <<lkSerial, page_text, result, branch,
                   parseVars, ingestVars, runVars, dateVars>>

\* page.screenshot raises in the handler: the exception leaves lookup_serial
HandlerShotRaises ==
    /\ lkState = "handler"
    /\ lkState' = "raised"
    /\ UNCHANGED <<lkSerial, page_text, result, branch, shots,
                   parseVars, ingestVars, runVars, dateVars>>

NextLookup ==
    \/ SearchRaises
    \/ Extract
    \/ CaptureOk
    \/ CaptureRaises
    \/ ClearSearch
    \/ HandlerShotOk
    \/ HandlerShotRaises

SpecLookup == InitLookup /\ [][NextLookup]_vars

\* ---- C21: the two tiers of the extraction ----

\* the whitespace found between the parts of a card
WsOpt  == {<<>>, Sp}
WsSome == {Sp, Sp \o Sp, Nl}

\* the identifiers printed on the pages
PageImeis  == {IMEI1, SubSeq(IMEI1, 1, 14)}
PageIccids == {ICCID1}

AllDigits(v) == \A k \in 1..Len(v) : v[k] \in Digits

\* the positions of t where the text m stands
Occurrences(t, m) == {i \in 1..Len(t) : t[i] = m[1] /\ LitAt(t, i, m)}

\* t shows the serial, the IMEI im and the ICCID ic in the fixed ordering:
\* Serial: <serial>, IMEI: <im>, ICCID: <ic>, whitespace between the
\* entries, the ICCID ending where its digits end
CardFor(t, serial, im, ic) ==
    \E i \in Occurrences(t, L_SERIAL) :
        \E w1 \in WsOpt, w2 \in WsSome, w3 \in WsOpt, w4 \in WsSome, w5 \in WsOpt :
            LET m == L_SERIAL \o w1 \o serial \o w2 \o L_IMEI \o w3 \o im
                         \o w4 \o L_ICCID \o w5 \o ic
            IN  /\ LitAt(t, i, m)
                /\ i + Len(m) > Len(t) \/ t[i + Len(m)] \notin Digits

HasCard(t, serial) ==
    \E im \in PageImeis, ic \in PageIccids : CardFor(t, serial, im, ic)

\* the positions of the serial token
SerialTokens(t, serial) ==
    {i \in Occurrences(t, L_SERIAL) :
        \E w \in WsOpt : LitAt(t, i, L_SERIAL \o w \o serial)}

\* the NearbyLen characters of t from its first serial token on
WindowOf(t, serial) ==
    LET i == Least(SerialTokens(t, serial))
    IN  [k \in 1..(IF Len(t) - i + 1 < NearbyLen THEN Len(t) - i + 1
                   ELSE NearbyLen) |-> t[i + k - 1]]

\* the value v stands in win behind its label
Labelled(win, label, v) ==
    \E w \in WsOpt : Occurrences(win, label \o w \o v) # {}

\* C21: once the text of the results page has been read and lookup_serial
\* has returned: (1) a page that shows the searched serial, an IMEI of 14 to
\* 15 digits and an ICCID of 19 to 22 digits in the fixed ordering gives
\* exactly that IMEI and that ICCID; (2) otherwise, on a page that holds the
\* serial token, the IMEI returned is empty or 14 to 15 digits standing
\* behind "IMEI:" inside the 300 characters that begin at the serial token,
\* the ICCID returned is empty or 19 to 22 digits standing behind "ICCID:"
\* inside the same characters, and each of the two is found whenever those
\* characters hold it, whatever becomes of the other; (3) a page without the
\* serial token gives three empty fields, and so does every lookup that
\* finds neither an IMEI nor an ICCID.
C21_TwoTier ==
    (lkState = "returned" /\ branch # "error") =>
        /\ \A im \in PageImeis, ic \in PageIccids :
              CardFor(page_text, lkSerial, im, ic)
                  => result.imei = im /\ result.iccid = ic
        /\ (~HasCard(page_text, lkSerial)
              /\ SerialTokens(page_text, lkSerial) # {}) =>
              LET win == WindowOf(page_text, lkSerial)
              IN  /\ result.imei # <<>> =>
                        /\ Len(result.imei) \in ImeiMin..ImeiMax
                        /\ AllDigits(result.imei)
                        /\ Labelled(win, L_IMEI, result.imei)
                  /\ result.iccid # <<>> =>
                        /\ Len(result.iccid) \in IccidMin..IccidMax
                        /\ AllDigits(result.iccid)
                        /\ Labelled(win, L_ICCID, result.iccid)
                  /\ Labelled(win, L_IMEI, SubSeq(IMEI1, 1, ImeiMin))
                        => result.imei # <<>>
                  /\ Labelled(win, L_ICCID, ICCID1) => result.iccid # <<>>
        /\ SerialTokens(page_text, lkSerial) = {} => AllEmpty(result)
        /\ (result.imei = <<>> /\ result.iccid = <<>>) => AllEmpty(result)

\* a lookup of the fallback tier returned the IMEI of the window and no
\* ICCID, the ICCID of the page standing beyond the window
C21_Witness ==
    /\ lkState = "returned"
    /\ branch = "fallback"
    /\ result.imei = IMEI1
    /\ result.iccid = <<>>
    /\ \E w \in WsOpt : Occurrences(page_text, L_ICCID \o w \o ICCID1) # {}

\* a lookup of the primary tier returned the IMEI and the ICCID of the card
C21_WitnessPrimary ==
    /\ lkState = "returned"
    /\ branch = "primary"
    /\ lkSerial = S274341
    /\ result = [imei |-> IMEI1, iccid |-> ICCID1, sim_provider |-> <<>>]

\* ---- C22: the screenshot of an unresolved lookup ----

\* C22: a lookup that ends with three empty fields (serial not on the page,
\* serial on the page with no IMEI or ICCID nearby, exception during the
\* lookup) has written a screenshot, and it ends by returning that result:
\* no exception leaves lookup_serial.
C22_UnresolvedCaptured ==
    /\ lkState # "raised"
    /\ (lkState = "returned" /\ AllEmpty(result)) => shots >= 1

\* what holds of the code: an unresolved lookup that returns has written a
\* screenshot, and a resolved one has written none
C22_CapturedWhenReturned ==
    lkState = "returned" => (AllEmpty(result) <=> shots >= 1)

\* ---- C23: what enrichment changes of a record ----

\* the fields enrichment leaves alone
SameFrame(r, q) ==
    /\ r.sku = q.sku
    /\ r.serial = q.serial
    /\ r.status = q.status
    /\ r.order_number = q.order_number
    /\ r.raw_notes = q.raw_notes

\* one step of the run, once parse_orders has returned its records
C23_Step ==
    recs0 # <<>> =>
        /\ Len(records') = Len(records)
        /\ lkIdx' \in {lkIdx, lkIdx + 1}
        /\ \A k \in 1..Len(records) :
              records'[k] # records[k] =>
                  /\ pc = "lookup"
                  /\ lkIdx' = lkIdx + 1
                  /\ k = ToLookup(records)[lkIdx + 1]
                  /\ records[k].serial # NOT_FOUND
                  /\ SameFrame(records'[k], records[k])
                  /\ records'[k].retailer = records[k].retailer
                  /\ records[k].imei = <<>>
                  /\ records[k].iccid = <<>>
                  /\ records[k].sim_provider = <<>>

\* the records at any point of the run, against those parse_orders returned
C23_Frame ==
    recs0 # <<>> =>
        /\ Len(records) = Len(recs0)
        /\ \A k \in 1..Len(recs0) :
              /\ SameFrame(records[k], recs0[k])
              /\ recs0[k].serial = NOT_FOUND => records[k] = recs0[k]
              /\ (\/ records[k].imei # <<>>
                  \/ records[k].iccid # <<>>
                  \/ records[k].sim_provider # <<>>)
                    => /\ pc # "start"
                       /\ \E p \in 1..lkIdx : ToLookup(records)[p] = k
        /\ payload # <<>> =>
              \A k \in 1..Len(recs0) :
                  /\ payload[k + 1][3] = recs0[k].serial
                  /\ payload[k + 1][9] = recs0[k].status

Events(ev) == {i \in 1..Len(log) : log[i] = ev}

\* start() was called at position j of the log and did not raise
StartedAt(j) ==
    /\ j \in Events("start")
    /\ j + 1 > Len(log) \/ log[j + 1] # "start_failed"

\* C24: in every run start() is called at most once; lookup_serial and
\* upload_csv are called only after a start() that completed and before any
\* close(); after a close() no start(), lookup_serial or upload_csv follows.
C24_SessionOrder ==
    /\ Cardinality(Events("start")) <= 1
    /\ \A i \in Events("lookup") \cup Events("bulk") :
          /\ \E j \in 1..(i - 1) : StartedAt(j)
          /\ \A c \in Events("close") : i < c
    /\ \A c \in Events("close") :
          \A i \in (c + 1)..Len(log) :
              log[i] \notin {"start", "lookup", "shot", "bulk", "bulk_committed"}
    /\ (sess.startCalls = 0 \/ sess.closeCalls > 0) =>
          ~ENABLED (LookupFound \/ BulkUpdateOk)

\* a live run ended after start(), a lookup, the bulk update and close()
C24_Witness ==
    /\ pc = "done"
    /\ ~dry_run
    /\ Events("start") # {}
    /\ Events("lookup") # {}
    /\ Events("bulk_ok") # {}
    /\ sess.closeCalls = 1
    /\ log[Len(log)] = "close"

\* ---- C25: whose identifiers a lookup returns ----

\* the positions where t holds a "Serial:" entry whose serial number is
\* exactly serial: the digits of the entry end where serial ends
ExactSerialEntries(t, serial) ==
    {i \in Occurrences(t, L_SERIAL) :
        \E w \in WsOpt :
            LET m == L_SERIAL \o w \o serial
            IN  /\ LitAt(t, i, m)
                /\ i + Len(m) > Len(t) \/ t[i + Len(m)] \notin Digits}

\* C25: a lookup that returns an IMEI or an ICCID has read a page holding a
\* "Serial:" entry whose serial number is exactly the searched serial, not a
\* longer serial that begins with it, in the primary and in the fallback
\* tier.
C25_ExactSerial ==
    (lkState = "returned" /\ (result.imei # <<>> \/ result.iccid # <<>>))
        => ExactSerialEntries(page_text, lkSerial) # {}

\* what holds of the code: the primary tier returns identifiers only for an
\* entry of exactly the searched serial
C25_PrimaryExact ==
    (lkState = "returned" /\ branch = "primary")
        => ExactSerialEntries(page_text, lkSerial) # {}

\* ---- C26: enrichment keeps the records and their order ----

\* C26: a payload that has been built has one data row per record
\* parse_orders returned, in the same order and with the same serial,
\* however many lookups failed and whether or not start() failed; the
\* records themselves are as many at every point of the run; and when every
\* record is a NOT FOUND record no scraper is made, start() is not called
\* and no lookup is performed.
C26_RowsPreserved ==
    recs0 # <<>> =>
        /\ Len(records) = Len(recs0)
        /\ \A k \in 1..Len(recs0) : records[k].serial = recs0[k].serial
        /\ payload # <<>> =>
              /\ Len(payload) = Len(recs0) + 1
              /\ \A k \in 1..Len(recs0) : payload[k + 1][3] = recs0[k].serial
        /\ (\A k \in 1..Len(recs0) : recs0[k].serial = NOT_FOUND) =>
              /\ sess = NoSession
              /\ Events("start") = {}
              /\ Events("lookup") = {}
              /\ ~gpx_scraper

\* a payload was built after start() had failed, for records of which one
\* is a NOT FOUND record and one has a serial
C26_Witness ==
    /\ payload # <<>>
    /\ Events("start_failed") # {}
    /\ Len(payload) = Len(recs0) + 1
    /\ \E k \in 1..Len(recs0) : recs0[k].serial = NOT_FOUND
    /\ \E k \in 1..Len(recs0) : recs0[k].serial = S263384

\* a payload was built for NOT FOUND records alone
C26_WitnessSentinels ==
    /\ payload # <<>>
    /\ Len(recs0) = 2
    /\ \A k \in 1..Len(recs0) : recs0[k].serial = NOT_FOUND

====
